---- MODULE Spec2Model ----
(***************************************************************************)
(* A model of the market-feed pipeline: the limit order book               *)
(* (src/src/book/order_book.cpp), the SPSC ring (src/include/              *)
(* ring_buffer.hpp), the feed decoder (src/src/feed/decoder.cpp) and the   *)
(* producer/consumer pipeline of main (src/src/main.cpp).                  *)
(*                                                                         *)
(* Four specifications share the variables below; each leaves the other    *)
(* components' variables untouched:                                        *)
(*   SpecBook     one OrderBook driven through its public operations       *)
(*   SpecRing     one RingBuffer with a producer and a consumer thread     *)
(*   SpecDecoder  one Decoder driven through has_next()/next()/reset()     *)
(*   SpecPipe     main(): producer thread, consumer loop, join, drain      *)
(***************************************************************************)
EXTENDS Integers, Sequences, FiniteSets, TLC

VARIABLES
    \* ---- OrderBook (SpecBook) ----
    book,           \* the OrderBook object: orders_, bids_, asks_
    op,             \* name of the last public operation called on book
    ret,            \* its boolean return value
    \* ---- RingBuffer ----
    capacity_,      \* RingBuffer::capacity_
    head_,          \* RingBuffer::head_ (consumer index)
    tail_,          \* RingBuffer::tail_ (producer index)
    buffer_,        \* RingBuffer::buffer_, slots 0..capacity_-1
    ppc,            \* producer thread: position in its code
    p_item,         \* producer: the item being pushed
    p_tail,         \* producer: try_push's current_tail
    cpc,            \* consumer thread: position in its code
    c_item,         \* consumer: the caller's output variable of try_pop
    c_head,         \* consumer: try_pop's current_head
    pushed,         \* history: items accepted by successful try_push calls
    popped,         \* history: items returned by successful try_pop calls
    \* ---- Decoder ----
    feed,           \* the mapped file: a sequence of bytes
    current_pos_,   \* Decoder::current_pos_
    returned,       \* the last next() call: its event, the cursor before and after
    passes,         \* history: the next() calls of the first pass and of the current one
    \* ---- pipeline (main) ----
    g_shutdown,     \* the atomic shutdown flag
    shutdown_at,    \* history: how many events were enqueued when it was set
    order_books,    \* symbol -> OrderBook
    iter_order,     \* iteration order of the unordered_map order_books
    dispatched,     \* history: events the consumer loop ran through its switch
    discarded,      \* history: events popped by the post-join drain loop
    \* ---- TopOfBookPublisher and the periodic publish of main ----
    output_,        \* the characters written to the publisher's stream
    header_printed_,\* TopOfBookPublisher::header_printed_
    published,      \* history: the publish() calls made, with their arguments
    symbols,        \* config.symbols: the symbol strings of the command line
    publish_interval_us, \* config.publish_interval_us
    now_us,         \* the reading of the steady clock
    last_publish_us,\* main's last_publish_us
    round,          \* history: how many publish rounds main has started
    \* ---- Decoder objects: construction, move, destruction ----
    decoders,       \* object name -> its fields, or NoObject outside its lifetime
    released,       \* history: mapping -> how often it was munmap'ed and closed
    moved           \* history: the last operation on the Decoder objects

bookVars == <<book, op, ret>>
ringVars == <<capacity_, head_, tail_, buffer_, ppc, p_item, p_tail,
              cpc, c_item, c_head, pushed, popped>>
decVars  == <<feed, current_pos_, returned, passes>>
pipeVars == <<g_shutdown, shutdown_at, order_books, iter_order, dispatched, discarded>>
pubVars  == <<output_, header_printed_, published, symbols, publish_interval_us,
              now_us, last_publish_us, round>>
moveVars == <<decoders, released, moved>>
extVars  == <<pubVars, moveVars>>
vars     == <<book, op, ret,
              capacity_, head_, tail_, buffer_, ppc, p_item, p_tail,
              cpc, c_item, c_head, pushed, popped,
              feed, current_pos_, returned, passes,
              g_shutdown, shutdown_at, order_books, iter_order, dispatched, discarded,
              output_, header_printed_, published, symbols, publish_interval_us,
              now_us, last_publish_us, round, decoders, released, moved>>

(***************************************************************************)
(* Bounds of the model.                                                    *)
(***************************************************************************)
MaxId       == 2    \* order ids 1..MaxId
MaxPrice    == 2    \* prices 0..MaxPrice
MaxQty      == 2    \* quantities 0, 2^30, .., MaxQty * 2^30 (see Qtys)
MaxCapBits  == 2    \* ring capacities 2^0 .. 2^MaxCapBits
MaxPush     == 4    \* SpecRing: successful pushes of one run
MaxVal      == 2    \* SpecRing: the values pushed are 1..MaxVal
MaxChunks   == 3    \* SpecDecoder: a feed is 1..MaxChunks chunks of DecChunks
MaxCalls    == 4    \* SpecDecoder: next() calls kept of a pass (see passes)
MaxPipeChunks == 2  \* SpecPipe: a feed is 1..MaxPipeChunks chunks of PipeChunks
PipeCapBits == 1    \* SpecPipe: the ring has 2^PipeCapBits slots
MaxPublish  == 2    \* SpecPublisher: publish() calls of one run
MaxTs       == 1    \* SpecPublisher: timestamps 0..MaxTs
MaxRounds   == 2    \* SpecRounds: publish rounds of one run
MaxClock    == 3    \* SpecRounds: the clock reads 0..MaxClock
MaxInterval == 2    \* SpecRounds: publish_interval_us is 0..MaxInterval
MaxMaps     == 2    \* SpecMove: files opened and mapped in one run
MaxFileSize == 2    \* SpecMove: a file has 1..MaxFileSize bytes

(***************************************************************************)
(* uint32_t, kept at its width: a value is [hi, lo], two 16-bit halves,    *)
(* value = hi * 2^16 + lo.  += and -= wrap modulo 2^32 as in C++.          *)
(***************************************************************************)
Half == 2^16

U32(n) == [hi |-> n \div Half, lo |-> n % Half]

U32Zero == [hi |-> 0, lo |-> 0]

U32Add(a, b) ==
    LET lo == a.lo + b.lo
    IN  [hi |-> (a.hi + b.hi + (lo \div Half)) % Half, lo |-> lo % Half]

U32Sub(a, b) ==
    LET lo == a.lo - b.lo
        borrow == IF lo < 0 THEN 1 ELSE 0
    IN  [hi |-> (a.hi - b.hi - borrow) % Half, lo |-> lo % Half]

U32Gt(a, b) == a.hi > b.hi \/ (a.hi = b.hi /\ a.lo > b.lo)

(***************************************************************************)
(* std::map / std::unordered_map as functions on their key sets.           *)
(***************************************************************************)
EmptyMap == [k \in {} |-> 0]

Put(m, k, v) == [x \in (DOMAIN m) \cup {k} |-> IF x = k THEN v ELSE m[x]]

Erase(m, k) == [x \in (DOMAIN m) \ {k} |-> m[x]]

MaxOf(S) == CHOOSE x \in S : \A y \in S : y <= x

MinOf(S) == CHOOSE x \in S : \A y \in S : x <= y

(***************************************************************************)
(* OrderBook                                                               *)
(***************************************************************************)
BUY  == 66      \* 'B'
SELL == 83      \* 'S'

OrderInfo(s, p, q) == [side |-> s, price |-> p, quantity |-> q]

EmptyBook == [orders_ |-> EmptyMap, bids_ |-> EmptyMap, asks_ |-> EmptyMap]

\* bids_.begin()->first: bids_ is ordered by std::greater
BidsBegin(b) == MaxOf(DOMAIN b.bids_)

\* asks_.begin()->first
AsksBegin(b) == MinOf(DOMAIN b.asks_)

\* a slip of has_crossing: the order's own side is compared as well
has_crossing_own_side(b, side, price) ==
    IF side = BUY
    THEN \/ (DOMAIN b.asks_ # {} /\ price >= AsksBegin(b))
         \/ (DOMAIN b.bids_ # {} /\ price <= BidsBegin(b))
    ELSE \/ (DOMAIN b.bids_ # {} /\ price <= BidsBegin(b))
         \/ (DOMAIN b.asks_ # {} /\ price >= AsksBegin(b))

\* a slip of has_crossing: strict comparisons, so equal prices are let through
has_crossing_strict(b, side, price) ==
    IF side = BUY
    THEN IF DOMAIN b.asks_ # {} THEN price > MinOf(DOMAIN b.asks_) ELSE FALSE
    ELSE IF DOMAIN b.bids_ # {} THEN price < MaxOf(DOMAIN b.bids_) ELSE FALSE

has_crossing(b, side, price) ==
    IF side = BUY
    THEN IF DOMAIN b.asks_ # {} THEN price >= AsksBegin(b) ELSE FALSE
    ELSE IF DOMAIN b.bids_ # {} THEN price <= BidsBegin(b) ELSE FALSE

\* operator[] inserts a zero entry when the price is absent, then +=
AddLevel(m, price, quantity) ==
    Put(m, price, U32Add(IF price \in DOMAIN m THEN m[price] ELSE U32Zero, quantity))

add_to_level(b, side, price, quantity) ==
    IF side = BUY
    THEN [b EXCEPT !.bids_ = AddLevel(b.bids_, price, quantity)]
    ELSE [b EXCEPT !.asks_ = AddLevel(b.asks_, price, quantity)]

RemoveLevel(m, price, quantity) ==
    IF price \in DOMAIN m
    THEN LET q == U32Sub(m[price], quantity)
         IN  IF q = U32Zero THEN Erase(m, price) ELSE Put(m, price, q)
    ELSE m

\* a slip of remove_from_level: a level that reaches 0 is left in place
\* and the first level of the ladder is erased instead
remove_from_level_erases_begin(b, side, price, quantity) ==
    LET m     == IF side = BUY THEN b.bids_ ELSE b.asks_
        begin == IF side = BUY THEN MaxOf(DOMAIN m) ELSE MinOf(DOMAIN m)
        m2    == IF price \in DOMAIN m
                 THEN LET q == U32Sub(m[price], quantity)
                      IN  IF q = U32Zero THEN Erase(Put(m, price, q), begin)
                          ELSE Put(m, price, q)
                 ELSE m
    IN  IF side = BUY THEN [b EXCEPT !.bids_ = m2] ELSE [b EXCEPT !.asks_ = m2]

remove_from_level(b, side, price, quantity) ==
    IF side = BUY
    THEN [b EXCEPT !.bids_ = RemoveLevel(b.bids_, price, quantity)]
    ELSE [b EXCEPT !.asks_ = RemoveLevel(b.asks_, price, quantity)]

Result(okv, b) == [ok |-> okv, book |-> b]

\* a slip of on_add: no duplicate-id check, emplace replaced by an assignment
on_add_no_duplicate_check(b, order_id, side, price, quantity) ==
    IF has_crossing(b, side, price) THEN Result(FALSE, b)
    ELSE Result(TRUE,
           add_to_level(
             [b EXCEPT !.orders_ = Put(b.orders_, order_id, OrderInfo(side, price, quantity))],
             side, price, quantity))

on_add(b, order_id, side, price, quantity) ==
    IF order_id \in DOMAIN b.orders_ THEN Result(FALSE, b)
    ELSE IF has_crossing(b, side, price) THEN Result(FALSE, b)
    ELSE Result(TRUE,
           add_to_level(
             [b EXCEPT !.orders_ = Put(b.orders_, order_id, OrderInfo(side, price, quantity))],
             side, price, quantity))

\* a slip of on_modify: the old level is vacated before the crossing check,
\* so a modify rejected for crossing has already changed the ladder
on_modify_early_remove(b, order_id, new_price, new_quantity) ==
    IF order_id \notin DOMAIN b.orders_ THEN Result(FALSE, b)
    ELSE IF new_quantity = U32Zero THEN Result(FALSE, b)
    ELSE LET order == b.orders_[order_id]
             b1 == remove_from_level(b, order.side, order.price, order.quantity)
         IN  IF has_crossing(b, order.side, new_price) THEN Result(FALSE, b1)
             ELSE LET b2 == [b1 EXCEPT !.orders_ =
                               Put(b1.orders_, order_id,
                                   OrderInfo(order.side, new_price, new_quantity))]
                  IN  Result(TRUE, add_to_level(b2, order.side, new_price, new_quantity))

on_modify(b, order_id, new_price, new_quantity) ==
    IF order_id \notin DOMAIN b.orders_ THEN Result(FALSE, b)
    ELSE IF new_quantity = U32Zero THEN Result(FALSE, b)
    ELSE LET order == b.orders_[order_id]
         IN  IF has_crossing(b, order.side, new_price) THEN Result(FALSE, b)
             ELSE LET b1 == remove_from_level(b, order.side, order.price, order.quantity)
                      b2 == [b1 EXCEPT !.orders_ =
                               Put(b1.orders_, order_id,
                                   OrderInfo(order.side, new_price, new_quantity))]
                  IN  Result(TRUE, add_to_level(b2, order.side, new_price, new_quantity))

on_execute(b, order_id, exec_quantity) ==
    IF order_id \notin DOMAIN b.orders_ THEN Result(FALSE, b)
    ELSE LET order == b.orders_[order_id]
         IN  IF U32Gt(exec_quantity, order.quantity) THEN Result(FALSE, b)
             ELSE LET b1  == remove_from_level(b, order.side, order.price, exec_quantity)
                      rem == U32Sub(order.quantity, exec_quantity)
                  IN  Result(TRUE,
                        IF rem = U32Zero
                        THEN [b1 EXCEPT !.orders_ = Erase(b1.orders_, order_id)]
                        ELSE [b1 EXCEPT !.orders_ =
                                Put(b1.orders_, order_id,
                                    OrderInfo(order.side, order.price, rem))])

on_delete(b, order_id) ==
    IF order_id \notin DOMAIN b.orders_ THEN Result(FALSE, b)
    ELSE LET order == b.orders_[order_id]
             b1    == remove_from_level(b, order.side, order.price, order.quantity)
         IN  Result(TRUE, [b1 EXCEPT !.orders_ = Erase(b1.orders_, order_id)])

order_count(b) == Cardinality(DOMAIN b.orders_)

top_of_book(b) ==
    [best_bid_px |-> IF DOMAIN b.bids_ # {} THEN BidsBegin(b) ELSE 0,
     bid_sz      |-> IF DOMAIN b.bids_ # {} THEN b.bids_[BidsBegin(b)] ELSE U32Zero,
     best_ask_px |-> IF DOMAIN b.asks_ # {} THEN AsksBegin(b) ELSE 0,
     ask_sz      |-> IF DOMAIN b.asks_ # {} THEN b.asks_[AsksBegin(b)] ELSE U32Zero]

(***************************************************************************)
(* SpecBook: the public operations called in any order with any arguments. *)
(***************************************************************************)
Ids    == 1..MaxId
Sides  == {BUY, SELL}
Prices == 0..MaxPrice
\* quantities: the multiples of 2^30, a set that += and -= modulo 2^32 keep
\* finite; two orders of 2^31 wrap a uint32_t
Qtys   == {[hi |-> k * 2^14, lo |-> 0] : k \in 0..MaxQty}

\* no publisher, no clock and no Decoder object
PubNone ==
    /\ output_ = << >> /\ header_printed_ = FALSE /\ published = << >>
    /\ symbols = << >> /\ publish_interval_us = 0
    /\ now_us = 0 /\ last_publish_us = 0 /\ round = 0

MoveNone == decoders = << >> /\ released = << >> /\ moved = << >>

OtherInit ==
    /\ PubNone /\ MoveNone
    /\ capacity_ = 0 /\ head_ = 0 /\ tail_ = 0 /\ buffer_ = << >>
    /\ ppc = "none" /\ p_item = 0 /\ p_tail = 0
    /\ cpc = "none" /\ c_item = 0 /\ c_head = 0
    /\ pushed = << >> /\ popped = << >>
    /\ feed = << >> /\ current_pos_ = 0 /\ returned = << >> /\ passes = << >>
    /\ g_shutdown = FALSE /\ shutdown_at = -1
    /\ order_books = EmptyMap /\ iter_order = << >>
    /\ dispatched = << >> /\ discarded = << >>

BookInit ==
    /\ book = EmptyBook
    /\ op = "ctor"
    /\ ret = TRUE
    /\ OtherInit

BookCall(name, r) ==
    /\ book' = r.book
    /\ op' = name
    /\ ret' = r.ok
    /\ UNCHANGED <<ringVars, decVars, pipeVars, extVars>>

BookAdd ==
    \E id \in Ids, s \in Sides, p \in Prices, q \in Qtys :
        BookCall("on_add", on_add(book, id, s, p, q))

BookModify ==
    \E id \in Ids, p \in Prices, q \in Qtys :
        BookCall("on_modify", on_modify(book, id, p, q))

BookExecute ==
    \E id \in Ids, q \in Qtys :
        BookCall("on_execute", on_execute(book, id, q))

BookDelete ==
    \E id \in Ids :
        BookCall("on_delete", on_delete(book, id))

BookNext == BookAdd \/ BookModify \/ BookExecute \/ BookDelete

SpecBook == BookInit /\ [][BookNext]_vars

(***************************************************************************)
(* Properties of the order book.                                           *)
(***************************************************************************)
RECURSIVE SumOver(_, _)
\* the sum of f[x] over x in S
SumOver(f, S) ==
    IF S = {} THEN 0
    ELSE LET x == CHOOSE y \in S : TRUE IN f[x] + SumOver(f, S \ {x})

\* the live orders of book b resting at (side, price)
LiveAt(b, side, price) ==
    {id \in DOMAIN b.orders_ :
        b.orders_[id].side = side /\ b.orders_[id].price = price}

\* the true, unbounded sum of their quantities, in the [hi, lo] form with hi
\* left unwrapped
TrueSum(b, side, price) ==
    LET S  == LiveAt(b, side, price)
        lo == SumOver([id \in S |-> b.orders_[id].quantity.lo], S)
        hi == SumOver([id \in S |-> b.orders_[id].quantity.hi], S)
    IN  [hi |-> hi + (lo \div Half), lo |-> lo % Half]

Ladder(b, side) == IF side = BUY THEN b.bids_ ELSE b.asks_

\* the quantity stored for (side, price); no entry counts as 0
LevelQty(b, side, price) ==
    IF price \in DOMAIN Ladder(b, side) THEN Ladder(b, side)[price] ELSE U32Zero

I2(b) == \A side \in Sides, price \in Prices :
            LevelQty(b, side, price) = TrueSum(b, side, price)

I3(b) == \A side \in Sides, price \in Prices :
            (price \in DOMAIN Ladder(b, side)) <=> (TrueSum(b, side, price) # U32Zero)

I4(b) == \A pb \in DOMAIN b.bids_, pa \in DOMAIN b.asks_ : pb < pa

I5(b) == \A id \in DOMAIN b.orders_ : b.orders_[id].quantity # U32Zero

\* C4: whenever both ladders of the book are non-empty, every bid price, so
\* the highest, is strictly below every ask price, so the lowest.
C4_NoCrossing ==
    (DOMAIN book.bids_ # {} /\ DOMAIN book.asks_ # {}) => I4(book)

\* an accepted modify has just left a book with both ladders non-empty
C4_Witness ==
    /\ op = "on_modify" /\ ret = TRUE
    /\ DOMAIN book.bids_ # {} /\ DOMAIN book.asks_ # {}

\* C5: for every side and price the stored level quantity equals the sum of
\* the quantities of the live orders with that side and price.
C5_Aggregation == I2(book)

\* C6: a level entry exists if and only if the aggregated quantity of the
\* live orders at that side and price is greater than 0.
C6_Presence == I3(book)

\* C7: every live order has quantity greater than 0.
C7_Positivity == I5(book)

\* C9: an operation that returns false leaves the order map, both ladders,
\* order_count() and top_of_book() as they were before the call.
C9_RejectedUnchanged ==
    [][(ret' = FALSE) =>
         /\ book' = book
         /\ order_count(book') = order_count(book)
         /\ top_of_book(book') = top_of_book(book)]_vars

\* a modify has just been rejected on a book holding orders on both sides
C9_Witness ==
    /\ op = "on_modify" /\ ret = FALSE
    /\ \E i, j \in DOMAIN book.orders_ :
          book.orders_[i].side = BUY /\ book.orders_[j].side = SELL

\* the prices of the ladder m whose stored quantity is greater than 0
PositiveLevels(m) == {p \in DOMAIN m : m[p] # U32Zero}

\* C13: top_of_book() agrees with scanning the ladders: the best bid is the
\* highest bid price with quantity > 0 and its quantity, the best ask the
\* lowest ask price with quantity > 0 and its quantity, and a side with no
\* such level is reported with size 0.
C13_TopOfBookScan ==
    LET tob == top_of_book(book)
        pb  == PositiveLevels(book.bids_)
        pa  == PositiveLevels(book.asks_)
    IN  /\ IF pb # {}
           THEN tob.best_bid_px = MaxOf(pb) /\ tob.bid_sz = book.bids_[MaxOf(pb)]
           ELSE tob.bid_sz = U32Zero
        /\ IF pa # {}
           THEN tob.best_ask_px = MinOf(pa) /\ tob.ask_sz = book.asks_[MinOf(pa)]
           ELSE tob.ask_sz = U32Zero

\* C14: an accepted on_add followed at once by on_delete of the same id is
\* accepted and gives back both ladders, entry for entry, and order_count as
\* they were before the add.
C14_AddThenDelete ==
    [][(op' = "on_add" /\ ret' = TRUE) =>
         \A id \in (DOMAIN book'.orders_) \ (DOMAIN book.orders_) :
             LET d == on_delete(book', id)
             IN  /\ d.ok
                 /\ d.book.bids_ = book.bids_
                 /\ d.book.asks_ = book.asks_
                 /\ order_count(d.book) = order_count(book)]_vars

\* an order on side at price would cross the opposite ladder of b
WouldCross(b, side, price) ==
    IF side = BUY
    THEN \E pa \in DOMAIN b.asks_ : price >= pa
    ELSE \E pb \in DOMAIN b.bids_ : price <= pb

\* the level (side, price) of b2 is that of b1 changed to quantity q, and is
\* removed when q is 0 if dropZero, kept (or created) otherwise
LevelBecomes(b1, b2, side, price, q, dropZero) ==
    /\ LevelQty(b2, side, price) = q
    /\ (price \in DOMAIN Ladder(b2, side)) <=> ~(dropZero /\ q = U32Zero)

\* C16: on_add returns false if and only if the id is already live or the
\* order would cross; otherwise the order becomes live with exactly (side,
\* price, qty), order_count grows by 1 and qty is added to the (side, price)
\* level, which is created if absent.
C16_AddContract ==
    \A id \in Ids, s \in Sides, p \in Prices, q \in Qtys :
        LET r == on_add(book, id, s, p, q)
        IN  /\ (r.ok = FALSE) <=> (id \in DOMAIN book.orders_ \/ WouldCross(book, s, p))
            /\ r.ok =>
                  /\ id \in DOMAIN r.book.orders_
                  /\ r.book.orders_[id] = OrderInfo(s, p, q)
                  /\ order_count(r.book) = order_count(book) + 1
                  /\ LevelBecomes(book, r.book, s, p,
                                  U32Add(LevelQty(book, s, p), q), FALSE)

\* an add has just been accepted onto a level that another live order shares
C16_Witness ==
    /\ op = "on_add" /\ ret = TRUE
    /\ \E s \in Sides, p \in Prices : Cardinality(LiveAt(book, s, p)) = 2

\* C17: on_modify returns false if the id is not live, if new_qty is 0, or
\* if the order's side at new_price would cross; otherwise it returns true,
\* the old quantity is subtracted from the old level (removed when it reaches
\* 0), the order becomes (same side, new_price, new_qty), new_qty is added to
\* the new level, and order_count is unchanged.
C17_ModifyContract ==
    \A id \in Ids, p \in Prices, q \in Qtys :
        LET r == on_modify(book, id, p, q)
        IN  IF \/ id \notin DOMAIN book.orders_
               \/ q = U32Zero
               \/ WouldCross(book, book.orders_[id].side, p)
            THEN r.ok = FALSE
            ELSE LET old  == book.orders_[id]
                     left == U32Sub(LevelQty(book, old.side, old.price), old.quantity)
                 IN  /\ r.ok = TRUE
                     /\ id \in DOMAIN r.book.orders_
                     /\ r.book.orders_[id] = OrderInfo(old.side, p, q)
                     /\ order_count(r.book) = order_count(book)
                     /\ IF p = old.price
                        THEN LevelBecomes(book, r.book, old.side, p, U32Add(left, q), FALSE)
                        ELSE /\ LevelBecomes(book, r.book, old.side, old.price, left, TRUE)
                             /\ LevelBecomes(book, r.book, old.side, p,
                                             U32Add(LevelQty(book, old.side, p), q), FALSE)

\* C18: on_execute returns false if the id is not live or exec_qty exceeds
\* the order's quantity; otherwise it returns true, the order's quantity and
\* its level's quantity both decrease by exec_qty, the level is removed when
\* it reaches 0, and the order is erased exactly when nothing remains of it.
C18_ExecuteContract ==
    \A id \in Ids, e \in Qtys :
        LET r == on_execute(book, id, e)
        IN  IF \/ id \notin DOMAIN book.orders_
               \/ U32Gt(e, book.orders_[id].quantity)
            THEN r.ok = FALSE
            ELSE LET old == book.orders_[id]
                     rem == U32Sub(old.quantity, e)
                 IN  /\ r.ok = TRUE
                     /\ LevelBecomes(book, r.book, old.side, old.price,
                                     U32Sub(LevelQty(book, old.side, old.price), e), TRUE)
                     /\ (id \notin DOMAIN r.book.orders_) <=> (rem = U32Zero)
                     /\ id \in DOMAIN r.book.orders_ =>
                            r.book.orders_[id] = OrderInfo(old.side, old.price, rem)
                     /\ order_count(r.book) =
                            order_count(book) - (IF rem = U32Zero THEN 1 ELSE 0)

\* C19: on_delete returns false if the id is not live; otherwise it returns
\* true, the order's whole quantity is subtracted from its level, which is
\* removed when it reaches 0 and kept with the rest otherwise, the order is
\* erased and order_count decreases by 1.
C19_DeleteContract ==
    \A id \in Ids :
        LET r == on_delete(book, id)
        IN  IF id \notin DOMAIN book.orders_
            THEN r.ok = FALSE
            ELSE LET old == book.orders_[id]
                 IN  /\ r.ok = TRUE
                     /\ LevelBecomes(book, r.book, old.side, old.price,
                                     U32Sub(LevelQty(book, old.side, old.price),
                                            old.quantity), TRUE)
                     /\ id \notin DOMAIN r.book.orders_
                     /\ order_count(r.book) = order_count(book) - 1

\* on_modify with the crossing check evaluated after the order's old
\* quantity has left its level; a rejected call leaves the book as it was
on_modify_check_after(b, order_id, new_price, new_quantity) ==
    IF order_id \notin DOMAIN b.orders_ THEN Result(FALSE, b)
    ELSE IF new_quantity = U32Zero THEN Result(FALSE, b)
    ELSE LET order == b.orders_[order_id]
             b1 == remove_from_level(b, order.side, order.price, order.quantity)
         IN  IF has_crossing(b1, order.side, new_price) THEN Result(FALSE, b)
             ELSE LET b2 == [b1 EXCEPT !.orders_ =
                               Put(b1.orders_, order_id,
                                   OrderInfo(order.side, new_price, new_quantity))]
                  IN  Result(TRUE, add_to_level(b2, order.side, new_price, new_quantity))

\* C37: for every reachable book and every on_modify call, the crossing
\* check made before the order's old quantity is removed from its level
\* decides as the check made after that removal would and the call leaves
\* the same book; the decision is that of the order's side, the new price
\* and the best price of the opposite side.
C37_CheckBeforeOrAfter ==
    \A id \in Ids, p \in Prices, q \in Qtys :
        /\ on_modify(book, id, p, q) = on_modify_check_after(book, id, p, q)
        /\ (id \in DOMAIN book.orders_) =>
             LET order == book.orders_[id]
                 b1    == remove_from_level(book, order.side, order.price, order.quantity)
             IN  /\ has_crossing(book, order.side, p) = has_crossing(b1, order.side, p)
                 /\ has_crossing(book, order.side, p) =
                      IF order.side = BUY
                      THEN DOMAIN book.asks_ # {} /\ p >= MinOf(DOMAIN book.asks_)
                      ELSE DOMAIN book.bids_ # {} /\ p <= MaxOf(DOMAIN book.bids_)

\* a modify was rejected on a book whose only bid level holds one order
\* alone, so that removing it first would have emptied the bid side, with
\* asks on the other side
C37_Witness ==
    /\ op = "on_modify" /\ ret = FALSE
    /\ DOMAIN book.asks_ # {}
    /\ \E id \in DOMAIN book.orders_ :
         LET o == book.orders_[id]
         IN  /\ o.side = BUY
             /\ DOMAIN book.bids_ = {o.price}
             /\ book.bids_[o.price] = o.quantity
             /\ o.quantity # U32Zero

\* C38: adding to a level never overflows its 32-bit counter: after every
\* accepted on_add or on_modify each live order has a level entry at its
\* side and price, and the quantity stored there is the true, unbounded sum
\* of the live quantities at that side and price.
C38_NoLevelOverflow ==
    [][(op' \in {"on_add", "on_modify"} /\ ret' = TRUE) =>
          \A side \in Sides, price \in Prices :
              LiveAt(book', side, price) # {} =>
                  /\ price \in DOMAIN Ladder(book', side)
                  /\ Ladder(book', side)[price] = TrueSum(book', side, price)]_vars

\* the ladders of b1 and b2 agree at (side, price): both have no entry, or
\* both have one with the same quantity
SameLevel(b1, b2, side, price) ==
    /\ (price \in DOMAIN Ladder(b2, side)) <=> (price \in DOMAIN Ladder(b1, side))
    /\ (price \in DOMAIN Ladder(b1, side) /\ price \in DOMAIN Ladder(b2, side)) =>
           Ladder(b2, side)[price] = Ladder(b1, side)[price]

\* what an accepted call on order id x may change between b1 and b2: the
\* entry of x in the order map, never its side, and the levels in touched
FrameOf(b1, b2, x, touched) ==
    /\ (DOMAIN b2.orders_) \ {x} = (DOMAIN b1.orders_) \ {x}
    /\ \A id \in (DOMAIN b1.orders_) \ {x} : b2.orders_[id] = b1.orders_[id]
    /\ (x \in DOMAIN b1.orders_ /\ x \in DOMAIN b2.orders_) =>
           b2.orders_[x].side = b1.orders_[x].side
    /\ \A side \in Sides, price \in Prices :
           <<side, price>> \notin touched =>
               SameLevel(b1, b2, side, price)

\* C39: an accepted operation on order id X leaves the side of X, the
\* OrderInfo of every other live order and every level other than X's old
\* and new (side, price) as they were; order_count goes up by one on an
\* accepted add, down by one on an accepted delete or an execute that
\* leaves nothing, and is unchanged otherwise.
C39_FrameOfAccepted ==
    /\ \A id \in Ids, s \in Sides, p \in Prices, q \in Qtys :
         LET r == on_add(book, id, s, p, q)
         IN  r.ok => /\ FrameOf(book, r.book, id, {<<s, p>>})
                     /\ order_count(r.book) = order_count(book) + 1
    /\ \A id \in Ids, p \in Prices, q \in Qtys :
         LET r == on_modify(book, id, p, q)
         IN  r.ok => LET old == book.orders_[id]
                     IN  /\ FrameOf(book, r.book, id,
                                    {<<old.side, old.price>>, <<old.side, p>>})
                         /\ order_count(r.book) = order_count(book)
    /\ \A id \in Ids, q \in Qtys :
         LET r == on_execute(book, id, q)
         IN  r.ok => LET old == book.orders_[id]
                     IN  /\ FrameOf(book, r.book, id, {<<old.side, old.price>>})
                         /\ order_count(r.book) =
                              IF q = old.quantity THEN order_count(book) - 1
                              ELSE order_count(book)
    /\ \A id \in Ids :
         LET r == on_delete(book, id)
         IN  r.ok => LET old == book.orders_[id]
                     IN  /\ FrameOf(book, r.book, id, {<<old.side, old.price>>})
                         /\ order_count(r.book) = order_count(book) - 1

\* a modify was accepted on a book that holds another order on the other
\* side, at another price
C39_Witness ==
    /\ op = "on_modify" /\ ret = TRUE
    /\ \E i, j \in DOMAIN book.orders_ :
          /\ book.orders_[i].side = BUY /\ book.orders_[j].side = SELL
          /\ book.orders_[i].quantity # U32Zero
          /\ book.orders_[j].quantity # U32Zero
          /\ book.bids_[book.orders_[i].price] = book.orders_[i].quantity
          /\ book.asks_[book.orders_[j].price] = book.orders_[j].quantity

(***************************************************************************)
(* RingBuffer<T>                                                           *)
(*                                                                         *)
(* Every atomic load and store of try_push and try_pop, and every access   *)
(* to a slot, is one step, so the two threads interleave between any two   *)
(* of them.  A step is named by the label (at) the thread stands on and    *)
(* the label (nxt) it goes to, because the ring is called from several     *)
(* places (SpecRing's threads, the pipeline's producer, consumer loop and  *)
(* drain loop).                                                            *)
(***************************************************************************)
RECURSIVE BitAnd(_, _)
\* a & b on non-negative integers
BitAnd(a, b) ==
    IF a = 0 \/ b = 0 THEN 0
    ELSE (a % 2) * (b % 2) + 2 * BitAnd(a \div 2, b \div 2)

mask_ == capacity_ - 1

\* the constructor's asserts: capacity > 0 and a power of two
RingCapacities == {2^k : k \in 0..MaxCapBits}

\* make_unique<T[]>(capacity): value-initialised slots
NewBuffer(cap, dflt) == [i \in 0..(cap - 1) |-> dflt]

\* a slip of the full test: compares with the producer's own index
PushFullOwnIndex(next_tail) == next_tail = tail_

\* try_push: next_tail == head_.load(acquire)
PushFull(next_tail) == next_tail = head_

\* a slip of the empty test: compares with the slot after tail
PopEmptyNextSlot(current_head) == current_head = BitAnd(tail_ + 1, mask_)

\* try_pop: current_head == tail_.load(acquire)
PopEmpty(current_head) == current_head = tail_

\* const size_t current_tail = tail_.load(relaxed)
PushLoadTail(at, nxt) ==
    /\ ppc = at
    /\ p_tail' = tail_
    /\ ppc' = nxt
    /\ UNCHANGED <<capacity_, head_, tail_, buffer_, p_item, cpc, c_item, c_head,
                   pushed, popped>>
    /\ UNCHANGED <<bookVars, decVars, pipeVars, extVars>>

\* a slip of try_push: next_tail is not wrapped by the mask
PushLoadHeadNoMask(at, onFull, nxt) ==
    /\ ppc = at
    /\ ppc' = IF PushFull(p_tail + 1) THEN onFull ELSE nxt
    /\ UNCHANGED <<capacity_, head_, tail_, buffer_, p_item, p_tail, cpc, c_item,
                   c_head, pushed, popped>>
    /\ UNCHANGED <<bookVars, decVars, pipeVars, extVars>>

\* next_tail = (current_tail + 1) & mask_; if (next_tail == head_) return false
PushLoadHead(at, onFull, nxt) ==
    /\ ppc = at
    /\ ppc' = IF PushFull(BitAnd(p_tail + 1, mask_)) THEN onFull ELSE nxt
    /\ UNCHANGED <<capacity_, head_, tail_, buffer_, p_item, p_tail, cpc, c_item,
                   c_head, pushed, popped>>
    /\ UNCHANGED <<bookVars, decVars, pipeVars, extVars>>

\* buffer_[current_tail] = item
PushWrite(at, nxt) ==
    /\ ppc = at
    /\ buffer_' = [buffer_ EXCEPT ![p_tail] = p_item]
    /\ ppc' = nxt
    /\ UNCHANGED <<capacity_, head_, tail_, p_item, p_tail, cpc, c_item, c_head,
                   pushed, popped>>
    /\ UNCHANGED <<bookVars, decVars, pipeVars, extVars>>

\* tail_.store(next_tail, release); return true
PushStore(at, nxt) ==
    /\ ppc = at
    /\ tail_' = BitAnd(p_tail + 1, mask_)
    /\ pushed' = Append(pushed, p_item)
    /\ ppc' = nxt
    /\ UNCHANGED <<capacity_, head_, buffer_, p_item, p_tail, cpc, c_item, c_head,
                   popped>>
    /\ UNCHANGED <<bookVars, decVars, pipeVars, extVars>>

\* const size_t current_head = head_.load(relaxed)
PopLoadHead(at, nxt) ==
    /\ cpc = at
    /\ c_head' = head_
    /\ cpc' = nxt
    /\ UNCHANGED <<capacity_, head_, tail_, buffer_, ppc, p_item, p_tail, c_item,
                   pushed, popped>>
    /\ UNCHANGED <<bookVars, decVars, pipeVars, extVars>>

\* a slip of try_pop: the slot is copied out before the empty test
PopLoadTailClobbers(at, onEmpty, nxt) ==
    /\ cpc = at
    /\ c_item' = buffer_[c_head]
    /\ cpc' = IF PopEmpty(c_head) THEN onEmpty ELSE nxt
    /\ UNCHANGED <<capacity_, head_, tail_, buffer_, ppc, p_item, p_tail,
                   c_head, pushed, popped>>
    /\ UNCHANGED <<bookVars, decVars, pipeVars, extVars>>

\* if (current_head == tail_.load(acquire)) return false
PopLoadTail(at, onEmpty, nxt) ==
    /\ cpc = at
    /\ cpc' = IF PopEmpty(c_head) THEN onEmpty ELSE nxt
    /\ UNCHANGED <<capacity_, head_, tail_, buffer_, ppc, p_item, p_tail, c_item,
                   c_head, pushed, popped>>
    /\ UNCHANGED <<bookVars, decVars, pipeVars, extVars>>

\* a slip of try_pop: reads the slot after current_head
PopReadNextSlot(at, nxt) ==
    /\ cpc = at
    /\ c_item' = buffer_[BitAnd(c_head + 1, mask_)]
    /\ cpc' = nxt
    /\ UNCHANGED <<capacity_, head_, tail_, buffer_, ppc, p_item, p_tail, c_head,
                   pushed, popped>>
    /\ UNCHANGED <<bookVars, decVars, pipeVars, extVars>>

\* item = std::move(buffer_[current_head])
PopRead(at, nxt) ==
    /\ cpc = at
    /\ c_item' = buffer_[c_head]
    /\ cpc' = nxt
    /\ UNCHANGED <<capacity_, head_, tail_, buffer_, ppc, p_item, p_tail, c_head,
                   pushed, popped>>
    /\ UNCHANGED <<bookVars, decVars, pipeVars, extVars>>

\* head_.store((current_head + 1) & mask_, release); return true
PopStoreTwoSteps(at, nxt) ==
    /\ cpc = at
    /\ head_' = BitAnd(c_head + 2, mask_)
    /\ popped' = Append(popped, c_item)
    /\ cpc' = nxt
    /\ UNCHANGED <<capacity_, tail_, buffer_, ppc, p_item, p_tail, c_item, c_head,
                   pushed>>
    /\ UNCHANGED <<bookVars, decVars, pipeVars, extVars>>

PopStore(at, nxt) ==
    /\ cpc = at
    /\ head_' = BitAnd(c_head + 1, mask_)
    /\ popped' = Append(popped, c_item)
    /\ cpc' = nxt
    /\ UNCHANGED <<capacity_, tail_, buffer_, ppc, p_item, p_tail, c_item, c_head,
                   pushed>>
    /\ UNCHANGED <<bookVars, decVars, pipeVars, extVars>>

\* empty(): head_.load(acquire) == tail_.load(acquire)
empty == head_ = tail_

\* a slip of size(): the difference is not masked
size_unmasked == tail_ - head_

\* size(): (tail - head) & mask_
size == BitAnd((tail_ - head_) % (2 * capacity_), mask_)

(***************************************************************************)
(* SpecRing: one producer thread calling try_push and one consumer thread  *)
(* calling try_pop, as in RingBufferTest.SingleProducerSingleConsumer.     *)
(***************************************************************************)
Values == 1..MaxVal

RingInit ==
    /\ book = EmptyBook /\ op = "none" /\ ret = TRUE
    /\ PubNone /\ MoveNone
    /\ capacity_ \in RingCapacities
    /\ head_ = 0 /\ tail_ = 0
    /\ buffer_ = NewBuffer(capacity_, 0)
    /\ ppc = "p_idle" /\ p_item = 0 /\ p_tail = 0
    /\ cpc = "c_idle" /\ c_item = 0 /\ c_head = 0
    /\ pushed = << >> /\ popped = << >>
    /\ feed = << >> /\ current_pos_ = 0 /\ returned = << >> /\ passes = << >>
    /\ g_shutdown = FALSE /\ shutdown_at = -1
    /\ order_books = EmptyMap /\ iter_order = << >>
    /\ dispatched = << >> /\ discarded = << >>

RingOthers == <<bookVars, decVars, pipeVars, extVars>>

\* the producer calls try_push(v)
RingPushCall ==
    /\ ppc = "p_idle"
    /\ Len(pushed) < MaxPush
    /\ \E v \in Values : p_item' = v
    /\ ppc' = "push_tail"
    /\ UNCHANGED <<capacity_, head_, tail_, buffer_, p_tail, cpc, c_item, c_head,
                   pushed, popped, RingOthers>>

\* the producer thread ends
RingProducerStop ==
    /\ ppc = "p_idle"
    /\ ppc' = "p_done"
    /\ UNCHANGED <<capacity_, head_, tail_, buffer_, p_item, p_tail, cpc, c_item,
                   c_head, pushed, popped, RingOthers>>

\* the consumer calls try_pop(item)
RingPopCall ==
    /\ cpc = "c_idle"
    /\ cpc' = "pop_head"
    /\ UNCHANGED <<capacity_, head_, tail_, buffer_, ppc, p_item, p_tail, c_item,
                   c_head, pushed, popped, RingOthers>>

RingPushLoadTail == PushLoadTail("push_tail", "push_head")
RingPushLoadHead == PushLoadHead("push_head", "p_idle", "push_write")
RingPushWrite    == PushWrite("push_write", "push_store")
RingPushStore    == PushStore("push_store", "p_idle")
RingPopLoadHead  == PopLoadHead("pop_head", "pop_tail")
RingPopLoadTail  == PopLoadTail("pop_tail", "c_idle", "pop_read")
RingPopRead      == PopRead("pop_read", "pop_store")
RingPopStore     == PopStore("pop_store", "c_idle")

RingProducer ==
    \/ RingPushCall
    \/ RingPushLoadTail
    \/ RingPushLoadHead
    \/ RingPushWrite
    \/ RingPushStore
    \/ RingProducerStop

RingConsumer ==
    \/ RingPopCall
    \/ RingPopLoadHead
    \/ RingPopLoadTail
    \/ RingPopRead
    \/ RingPopStore

RingNext == RingProducer \/ RingConsumer

SpecRing == RingInit /\ [][RingNext]_vars

\* s is a prefix of t
IsPrefix(s, t) == Len(s) <= Len(t) /\ \A i \in 1..Len(s) : s[i] = t[i]

\* C1: the values popped are always a prefix of the values pushed, and are
\* all of them once the producer has stopped and the ring is empty.
C1_Fifo ==
    /\ IsPrefix(popped, pushed)
    /\ (ppc = "p_done" /\ empty) => popped = pushed

\* the ring has wrapped around: more items went through than it has slots,
\* the producer has stopped and everything was popped
C1_Witness ==
    /\ ppc = "p_done" /\ empty
    /\ capacity_ > 1
    /\ Len(popped) > capacity_
    /\ \E i, j \in 1..Len(popped) : popped[i] # popped[j]

\* the items held: pushed (tail stored) and not yet popped (head stored)
Held == Len(pushed) - Len(popped)

\* C12: the try_push that reads head returns false exactly when capacity - 1
\* items are held at that moment, and goes on to write its slot otherwise.
C12_FullExactly ==
    [][(ppc = "push_head" /\ ppc' # "push_head") =>
         /\ (ppc' = "p_idle") <=> (Held = capacity_ - 1)
         /\ (ppc' = "push_write") <=> (Held < capacity_ - 1)]_vars

\* a try_push has just returned false (tail is still the index it loaded) on
\* a ring of more than one slot that was filled, popped from and filled again
C12_Witness ==
    /\ ppc = "p_idle" /\ p_tail = tail_
    /\ capacity_ > 1
    /\ Held = capacity_ - 1
    /\ Len(popped) >= 1
    /\ Len(pushed) >= capacity_

\* C27: the steps of a try_push that returns false leave head, tail and
\* every slot unchanged, and the steps of a try_pop that returns false leave
\* head, tail, every slot and the caller's output variable unchanged.
C27_FailedCallsChangeNothing ==
    [][/\ (ppc \in {"push_tail", "push_head"} /\ ppc' \in {"push_head", "p_idle"}
            /\ ppc' # ppc)
           => (head_' = head_ /\ tail_' = tail_ /\ buffer_' = buffer_)
       /\ (cpc \in {"pop_head", "pop_tail"} /\ cpc' \in {"pop_tail", "c_idle"}
            /\ cpc' # cpc)
           => (head_' = head_ /\ tail_' = tail_ /\ buffer_' = buffer_
               /\ c_item' = c_item)]_vars

\* a try_pop has just returned false (head is still the index it loaded) on
\* a ring of more than one slot after an earlier pop had succeeded, and the
\* output variable still holds the item of that pop
C27_Witness ==
    /\ cpc = "c_idle" /\ c_head = head_
    /\ capacity_ > 1
    /\ Len(popped) >= 1
    /\ c_item = popped[Len(popped)]
    /\ buffer_[c_head] # c_item

\* C28: whenever no push and no pop is in progress, size() is the number of
\* items pushed and not yet popped, which is within 0..capacity - 1, and
\* empty() is true exactly when that number is 0; capacity() never changes.
C28_SizeAtRest ==
    /\ []((ppc \in {"p_idle", "p_done"} /\ cpc = "c_idle") =>
            /\ size = Held
            /\ 0 <= Held /\ Held <= capacity_ - 1
            /\ empty <=> (Held = 0))
    /\ [][capacity_' = capacity_]_vars

\* both threads are between calls on a full ring of four slots whose tail
\* has wrapped around below its head
C28_Witness ==
    /\ ppc = "p_idle" /\ cpc = "c_idle"
    /\ capacity_ = 4
    /\ Held = capacity_ - 1
    /\ tail_ < head_

(***************************************************************************)
(* Message framing (messages.hpp) and Decoder (decoder.cpp)                *)
(*                                                                         *)
(* The mapped file is a sequence of bytes; offset o of the file is         *)
(* feed[o + 1].  An event's payload is the record's bytes, as the          *)
(* assignment event.payload.add = *msg copies them; a field is read from   *)
(* the payload at its offset in the packed struct.                         *)
(***************************************************************************)
TagA == 65      \* 'A'
TagU == 85      \* 'U'
TagE == 69      \* 'E'
TagD == 68      \* 'D'

SizeofAddOrderMsg     == 36
SizeofModifyOrderMsg  == 29
SizeofExecuteOrderMsg == 21
SizeofDeleteOrderMsg  == 17

sizeof(T) ==
    CASE T = "AddOrderMsg"     -> SizeofAddOrderMsg
      [] T = "ModifyOrderMsg"  -> SizeofModifyOrderMsg
      [] T = "ExecuteOrderMsg" -> SizeofExecuteOrderMsg
      [] T = "DeleteOrderMsg"  -> SizeofDeleteOrderMsg

\* a little-endian uint32_t at offset off of the bytes m
U32At(m, off) ==
    [hi |-> m[off + 3] + 256 * m[off + 4], lo |-> m[off + 1] + 256 * m[off + 2]]

RECURSIVE LittleEndian(_, _, _)
\* the n bytes of m from offset off as a little-endian number (the feeds of
\* the pipeline keep 64-bit fields below 2^31, in the range of TLC's integers)
LittleEndian(m, off, n) ==
    IF n = 0 THEN 0 ELSE m[off + 1] + 256 * LittleEndian(m, off + 1, n - 1)

\* AddOrderMsg: type 0, ts_us 1, order_id 9, symbol 17, side 23, px_nano 24, qty 32
AddOrderId(m) == LittleEndian(m, 9, 8)
AddSymbol(m)  == SubSeq(m, 18, 23)
AddSide(m)    == m[24]
AddPx(m)      == LittleEndian(m, 24, 8)
AddQty(m)     == U32At(m, 32)
\* ModifyOrderMsg: type 0, ts_us 1, order_id 9, new_px_nano 17, new_qty 25
ModOrderId(m) == LittleEndian(m, 9, 8)
ModPx(m)      == LittleEndian(m, 17, 8)
ModQty(m)     == U32At(m, 25)
\* ExecuteOrderMsg: type 0, ts_us 1, order_id 9, exec_qty 17
ExecOrderId(m) == LittleEndian(m, 9, 8)
ExecQty(m)     == U32At(m, 17)
\* DeleteOrderMsg: type 0, ts_us 1, order_id 9
DelOrderId(m)  == LittleEndian(m, 9, 8)

\* Event(): type INVALID; the payload is left unset
InvalidEvent == [type |-> "INVALID", payload |-> << >>]

has_next(f, pos) == pos < Len(f)

\* a slip of read_message<AddOrderMsg>: the quantity is not checked
validate_no_add_qty(T, msg) ==
    CASE T = "AddOrderMsg" -> ~(AddSide(msg) # BUY /\ AddSide(msg) # SELL)
      [] T = "ModifyOrderMsg"  -> ~(ModQty(msg) = U32Zero)
      [] T = "ExecuteOrderMsg" -> ~(ExecQty(msg) = U32Zero)
      [] T = "DeleteOrderMsg"  -> TRUE

\* the per-type checks of read_message<T>
validate(T, msg) ==
    CASE T = "AddOrderMsg" ->
           /\ ~(AddSide(msg) # BUY /\ AddSide(msg) # SELL)
           /\ ~(AddQty(msg) = U32Zero)
      [] T = "ModifyOrderMsg"  -> ~(ModQty(msg) = U32Zero)
      [] T = "ExecuteOrderMsg" -> ~(ExecQty(msg) = U32Zero)
      [] T = "DeleteOrderMsg"  -> TRUE

\* a slip of read_message: a truncated record is consumed to the end of file
read_message_skips_truncated(f, pos, T) ==
    IF pos + sizeof(T) > Len(f)
    THEN [ok |-> FALSE, payload |-> << >>, pos |-> Len(f)]
    ELSE LET msg == SubSeq(f, pos + 1, pos + sizeof(T))
         IN  IF validate(T, msg)
             THEN [ok |-> TRUE, payload |-> msg, pos |-> pos + sizeof(T)]
             ELSE [ok |-> FALSE, payload |-> << >>, pos |-> pos]

\* read_message<T>(event): [ok, payload, pos]
read_message(f, pos, T) ==
    IF pos + sizeof(T) > Len(f)
    THEN [ok |-> FALSE, payload |-> << >>, pos |-> pos]
    ELSE LET msg == SubSeq(f, pos + 1, pos + sizeof(T))
         IN  IF validate(T, msg)
             THEN [ok |-> TRUE, payload |-> msg, pos |-> pos + sizeof(T)]
             ELSE [ok |-> FALSE, payload |-> << >>, pos |-> pos]

\* one case of next()'s switch: the event and the cursor it leaves
Decoded(f, pos, T, type) ==
    LET r == read_message(f, pos, T)
    IN  IF r.ok THEN [ev |-> [type |-> type, payload |-> r.payload], pos |-> r.pos]
        ELSE [ev |-> InvalidEvent, pos |-> r.pos]

RECURSIVE next_skips_two(_, _)
\* a slip of next(): an unknown tag moves the cursor by two bytes
next_skips_two(f, pos) ==
    IF ~has_next(f, pos) THEN [ev |-> InvalidEvent, pos |-> pos]
    ELSE LET msg_type == f[pos + 1]
         IN  CASE msg_type = TagA -> Decoded(f, pos, "AddOrderMsg", "ADD_ORDER")
               [] msg_type = TagU -> Decoded(f, pos, "ModifyOrderMsg", "MODIFY_ORDER")
               [] msg_type = TagE -> Decoded(f, pos, "ExecuteOrderMsg", "EXECUTE_ORDER")
               [] msg_type = TagD -> Decoded(f, pos, "DeleteOrderMsg", "DELETE_ORDER")
               [] OTHER -> next_skips_two(f, pos + 2)

\* a slip of next(): an unknown tag is skipped but the call does not retry
next_gives_up(f, pos) ==
    IF ~has_next(f, pos) THEN [ev |-> InvalidEvent, pos |-> pos]
    ELSE LET msg_type == f[pos + 1]
         IN  CASE msg_type = TagA -> Decoded(f, pos, "AddOrderMsg", "ADD_ORDER")
               [] msg_type = TagU -> Decoded(f, pos, "ModifyOrderMsg", "MODIFY_ORDER")
               [] msg_type = TagE -> Decoded(f, pos, "ExecuteOrderMsg", "EXECUTE_ORDER")
               [] msg_type = TagD -> Decoded(f, pos, "DeleteOrderMsg", "DELETE_ORDER")
               [] OTHER -> [ev |-> InvalidEvent, pos |-> pos + 1]

RECURSIVE next(_, _)
\* Decoder::next() called with the cursor at pos: [ev, pos]
next(f, pos) ==
    IF ~has_next(f, pos) THEN [ev |-> InvalidEvent, pos |-> pos]
    ELSE LET msg_type == f[pos + 1]
         IN  CASE msg_type = TagA -> Decoded(f, pos, "AddOrderMsg", "ADD_ORDER")
               [] msg_type = TagU -> Decoded(f, pos, "ModifyOrderMsg", "MODIFY_ORDER")
               [] msg_type = TagE -> Decoded(f, pos, "ExecuteOrderMsg", "EXECUTE_ORDER")
               [] msg_type = TagD -> Decoded(f, pos, "DeleteOrderMsg", "DELETE_ORDER")
               [] OTHER -> next(f, pos + 1)

(***************************************************************************)
(* Feeds: records written field by field as the packed structs lay them    *)
(* out, little-endian.                                                     *)
(***************************************************************************)
Bytes8(n) == <<n % 256, (n \div 256) % 256, 0, 0, 0, 0, 0, 0>>

Bytes4(q) == <<q.lo % 256, q.lo \div 256, q.hi % 256, q.hi \div 256>>

\* "AAPL" and "MSFT", space-padded to 6 bytes
SymAAPL == <<65, 65, 80, 76, 32, 32>>
SymMSFT == <<77, 83, 70, 84, 32, 32>>

RecA(id, sym, side, px, qty) ==
    <<TagA>> \o Bytes8(0) \o Bytes8(id) \o sym \o <<side>> \o Bytes8(px) \o Bytes4(qty)

RecU(id, px, qty) == <<TagU>> \o Bytes8(0) \o Bytes8(id) \o Bytes8(px) \o Bytes4(qty)

RecE(id, qty) == <<TagE>> \o Bytes8(0) \o Bytes8(id) \o Bytes4(qty)

RecD(id) == <<TagD>> \o Bytes8(0) \o Bytes8(id)

\* well-formed records
GoodChunks ==
    { RecA(1, SymAAPL, BUY, 1, U32(1)),
      RecU(1, 2, U32(2)),
      RecE(1, U32(1)),
      RecD(1) }

\* complete records with a known tag that fail the per-type validation
BadChunks ==
    { RecA(2, SymAAPL, SELL, 2, U32Zero),
      RecA(2, SymAAPL, 88, 2, U32(1)),
      RecU(1, 2, U32Zero),
      RecE(1, U32Zero) }

\* an unknown tag byte, and a known tag byte with no record behind it
NoiseChunks == { <<0>>, <<TagD>> }

DecChunks == GoodChunks \cup BadChunks \cup NoiseChunks

RECURSIVE Concat(_)
Concat(ss) == IF ss = << >> THEN << >> ELSE Head(ss) \o Concat(Tail(ss))

\* the feeds made of 1..n chunks of C (a Decoder is never built on an empty file)
FeedsOf(C, n) ==
    UNION { {Concat(ss) : ss \in [1..k -> C]} : k \in 1..n }

(***************************************************************************)
(* SpecDecoder: one Decoder and its caller, who loops on has_next() and    *)
(* next(), may call next() at the end of the file, and may call reset().   *)
(* ppc is the caller's position; returned is the last next() call: the     *)
(* event, the cursor before and the cursor after.                          *)
(***************************************************************************)
NoCall == [ev |-> InvalidEvent, from |-> 0, to |-> 0]

\* passes: first is the pass made from construction up to the first reset(),
\* cur the pass since the latest reset(), reset_at the cursor that reset()
\* found (-1 before any reset); a pass keeps its first MaxCalls calls
NoPasses == [first |-> << >>, cur |-> << >>, reset_at |-> -1]

Record(pass, call) == IF Len(pass) < MaxCalls THEN Append(pass, call) ELSE pass

DecInit ==
    /\ book = EmptyBook /\ op = "none" /\ ret = TRUE
    /\ PubNone /\ MoveNone
    /\ capacity_ = 0 /\ head_ = 0 /\ tail_ = 0 /\ buffer_ = << >>
    /\ p_item = 0 /\ p_tail = 0
    /\ cpc = "none" /\ c_item = 0 /\ c_head = 0
    /\ pushed = << >> /\ popped = << >>
    /\ g_shutdown = FALSE /\ shutdown_at = -1
    /\ order_books = EmptyMap /\ iter_order = << >>
    /\ dispatched = << >> /\ discarded = << >>
    /\ feed \in FeedsOf(DecChunks, MaxChunks)
    /\ current_pos_ = 0
    /\ returned = NoCall
    /\ passes = NoPasses
    /\ ppc = "d_check"

DecOthers == <<bookVars, capacity_, head_, tail_, buffer_, p_item, p_tail, cpc,
               c_item, c_head, pushed, popped, pipeVars, extVars>>

\* the caller evaluates has_next()
DecHasNext ==
    /\ ppc = "d_check"
    /\ ppc' = IF has_next(feed, current_pos_) THEN "d_call" ELSE "d_eof"
    /\ UNCHANGED <<decVars, DecOthers>>

\* the caller calls next()
DecNext ==
    /\ ppc \in {"d_call", "d_eof"}
    /\ LET r == next(feed, current_pos_)
           call == [ev |-> r.ev, from |-> current_pos_, to |-> r.pos]
       IN  /\ current_pos_' = r.pos
           /\ returned' = call
           /\ passes' = IF passes.reset_at < 0
                         THEN [passes EXCEPT !.first = Record(@, call)]
                         ELSE [passes EXCEPT !.cur = Record(@, call)]
    /\ ppc' = "d_check"
    /\ UNCHANGED <<feed, DecOthers>>

\* a slip of reset(): the cursor is left where it is
DecResetKeepsCursor ==
    /\ ppc \in {"d_check", "d_eof"}
    /\ current_pos_' = current_pos_
    /\ passes' = [passes EXCEPT !.cur = << >>, !.reset_at = current_pos_]
    /\ ppc' = "d_check"
    /\ UNCHANGED <<feed, returned, DecOthers>>

\* the caller calls reset()
DecReset ==
    /\ ppc \in {"d_check", "d_eof"}
    /\ current_pos_' = 0
    /\ passes' = [passes EXCEPT !.cur = << >>, !.reset_at = current_pos_]
    /\ ppc' = "d_check"
    /\ UNCHANGED <<feed, returned, DecOthers>>

DecNextState == DecHasNext \/ DecNext \/ DecReset

SpecDecoder == DecInit /\ [][DecNextState]_vars

\* the caller's loop always takes its next step
FairSpecDecoder == SpecDecoder /\ WF_vars(DecHasNext \/ DecNext)

\* the cursor stands on a complete record with a known tag that fails its
\* per-type validation
FailsValidation(f, pos) ==
    /\ has_next(f, pos)
    /\ \E T \in {"AddOrderMsg", "ModifyOrderMsg", "ExecuteOrderMsg", "DeleteOrderMsg"} :
         /\ f[pos + 1] = (CASE T = "AddOrderMsg" -> TagA [] T = "ModifyOrderMsg" -> TagU
                            [] T = "ExecuteOrderMsg" -> TagE [] OTHER -> TagD)
         /\ pos + sizeof(T) <= Len(f)
         /\ ~validate(T, SubSeq(f, pos + 1, pos + sizeof(T)))

\* a next() call has been made, so returned is a call and not NoCall
CallMade == passes.first # << >>

\* C23: the cursor is always within 0..size(): no sequence of next(),
\* has_next() and reset() calls moves it past the end of the file.
C23_CursorInFile ==
    /\ 0 <= current_pos_ /\ current_pos_ <= Len(feed)
    /\ CallMade => (returned.from <= returned.to /\ returned.to <= Len(feed))

\* a next() call has skipped an unknown tag that is the last byte of the
\* file and stopped with the cursor exactly at the end
C23_Witness ==
    /\ CallMade
    /\ feed[Len(feed)] \notin {TagA, TagU, TagE, TagD}
    /\ returned.from < Len(feed) /\ returned.to = Len(feed)
    /\ returned.ev.type = "INVALID"
    /\ current_pos_ = Len(feed)
    /\ Len(feed) > 1

KnownTags == {TagA, TagU, TagE, TagD}

\* L(t), the record length of tag t
RecordLength(t) ==
    CASE t = TagA -> 36 [] t = TagU -> 29 [] t = TagE -> 21 [] t = TagD -> 17

\* the offsets from from on at which the file f holds a known tag
KnownFrom(f, from) == {o \in from..(Len(f) - 1) : f[o + 1] \in KnownTags}

\* C24: a next() call that returns a valid event leaves the cursor exactly
\* L(t) bytes after the start of the record it found, and one that finds a
\* known-tag record truncated by the end of file returns Invalid with the
\* cursor at the start of that record.
C24_CursorAdvance ==
    CallMade =>
        LET K == KnownFrom(feed, returned.from)
        IN  /\ returned.ev.type # "INVALID" =>
                  /\ K # {}
                  /\ returned.to = MinOf(K) + RecordLength(feed[MinOf(K) + 1])
            /\ (K # {} /\ MinOf(K) + RecordLength(feed[MinOf(K) + 1]) > Len(feed)) =>
                  /\ returned.ev.type = "INVALID"
                  /\ returned.to = MinOf(K)

\* a next() call has skipped an unknown byte, found a known tag with too few
\* bytes behind it and returned Invalid with the cursor on that tag
C24_Witness ==
    /\ CallMade
    /\ returned.ev.type = "INVALID"
    /\ returned.from < returned.to /\ returned.to < Len(feed)
    /\ feed[returned.to + 1] \in KnownTags
    /\ returned.to + RecordLength(feed[returned.to + 1]) > Len(feed)
    /\ current_pos_ = returned.to

\* the bytes m of a record with tag t pass the checks made on its type
PassesChecks(t, m) ==
    CASE t = TagA -> m[24] \in {BUY, SELL} /\ U32At(m, 32) # U32Zero
      [] t = TagU -> U32At(m, 25) # U32Zero
      [] t = TagE -> U32At(m, 17) # U32Zero
      [] t = TagD -> TRUE

\* the file f holds at offset o a complete record that passes its checks
ValidRecordAt(f, o) ==
    /\ f[o + 1] \in KnownTags
    /\ o + RecordLength(f[o + 1]) <= Len(f)
    /\ PassesChecks(f[o + 1], SubSeq(f, o + 1, o + RecordLength(f[o + 1])))

\* C25: a next() call that finds an unknown tag at the cursor moves one byte
\* on and retries: its event and final cursor are those of a call started
\* at cursor + 1; on a file with no complete valid record every call
\* returns Invalid.
C25_UnknownTagSkipped ==
    CallMade =>
        /\ (returned.from < Len(feed) /\ feed[returned.from + 1] \notin KnownTags) =>
              /\ returned.to >= returned.from + 1
              /\ [ev |-> returned.ev, pos |-> returned.to] = next(feed, returned.from + 1)
        /\ (\A o \in 0..(Len(feed) - 1) : ~ValidRecordAt(feed, o)) =>
              returned.ev.type = "INVALID"

\* a next() call started on an unknown byte has returned the valid record
\* that follows it
C25_Witness ==
    /\ CallMade
    /\ feed[returned.from + 1] \notin KnownTags
    /\ returned.ev.type # "INVALID"
    /\ returned.to = returned.from + 1 + Len(returned.ev.payload)

\* the event kind of a record with tag t
KindOfTag(t) ==
    CASE t = TagA -> "ADD_ORDER" [] t = TagU -> "MODIFY_ORDER"
      [] t = TagE -> "EXECUTE_ORDER" [] t = TagD -> "DELETE_ORDER"

\* C26: every event that next() returns with a kind other than Invalid has
\* the kind of its record's tag, carries the record's bytes as they are in
\* the file, and passes the checks of its type (Add: side B or S and
\* qty > 0; Modify: new_qty > 0; Execute: exec_qty > 0).
C26_ReturnedEventsValid ==
    (CallMade /\ returned.ev.type # "INVALID") =>
        LET m == returned.ev.payload
            s == returned.to - Len(m)
        IN  /\ Len(m) >= 1 /\ s >= returned.from
            /\ m = SubSeq(feed, s + 1, returned.to)
            /\ m[1] \in KnownTags
            /\ Len(m) = RecordLength(m[1])
            /\ returned.ev.type = KindOfTag(m[1])
            /\ PassesChecks(m[1], m)

\* next() has returned an Add event for a record that is not the first
\* thing in the file
C26_Witness ==
    /\ CallMade
    /\ returned.ev.type = "ADD_ORDER"
    /\ returned.from > 0

\* C15: after reset(), called at any point, the next() calls give the same
\* events (kind and payload) and the same cursor positions, call for call,
\* as the pass made from construction.
C15_ResetReplays ==
    passes.reset_at >= 0 =>
        \A i \in 1..Len(passes.cur) :
            i <= Len(passes.first) => passes.cur[i] = passes.first[i]

\* reset() was called in the middle of the file, and the pass it started has
\* returned two different valid events that the first pass returned too
C15_Witness ==
    /\ passes.reset_at > 0 /\ passes.reset_at < Len(feed)
    /\ Len(passes.cur) >= 2 /\ Len(passes.first) >= 2
    /\ passes.cur[1].ev.type # "INVALID"
    /\ passes.cur[2].ev.type # "INVALID"
    /\ passes.cur[1].ev # passes.cur[2].ev

\* C10: a record that fails validation does not stop the stream: a caller
\* who keeps calling next() while has_next() is true (and stops calling
\* reset()) gets past it, and has_next() eventually becomes false.
C10_StreamContinues ==
    (<>[][~DecReset]_vars) =>
        (FailsValidation(feed, current_pos_) ~> ~has_next(feed, current_pos_))

(***************************************************************************)
(* The pipeline of main(): the producer thread decodes and pushes, the     *)
(* main thread pops and applies, joins the producer and drains the ring.   *)
(***************************************************************************)
\* RING_BUFFER_SIZE is 1024 * 1024 in main; the model keeps the ring a power
\* of two and scales it down so that a feed of a few records fills it
RING_BUFFER_SIZE == 2^PipeCapBits

\* feed::Symbol(const char* str): strlen capped at 5, copied over 6 spaces
SymbolOf(str) ==
    LET nz  == {i \in 1..5 : \A j \in 1..i : str[j] # 0}
        len == Cardinality(nz)
    IN  [i \in 1..6 |-> IF i <= len THEN str[i] ELSE 32]

\* the symbols given on the command line
ConfiguredSymbols == {SymAAPL, SymMSFT}

IterationOrders(S) ==
    {q \in [1..Cardinality(S) -> S] : \A i, j \in 1..Cardinality(S) : i # j => q[i] # q[j]}

\* the call the consumer makes on one book for a Modify, Execute or Delete
ProbeCall(b, event) ==
    LET msg == event.payload
    IN  CASE event.type = "MODIFY_ORDER" ->
               on_modify(b, ModOrderId(msg), ModPx(msg), ModQty(msg))
          [] event.type = "EXECUTE_ORDER" ->
               on_execute(b, ExecOrderId(msg), ExecQty(msg))
          [] event.type = "DELETE_ORDER" ->
               on_delete(b, DelOrderId(msg))

\* a slip of the probing loop: the break is taken whether or not the book
\* accepted, so only the first book of the iteration order is tried
ProbeFirstOnly(books, order, i, event) ==
    IF i > Len(order) THEN books
    ELSE LET r == ProbeCall(books[order[i]], event)
         IN  [books EXCEPT ![order[i]] = r.book]

RECURSIVE Probe(_, _, _, _)
\* for (auto& [sym, book] : order_books) if (book.on_X(...)) break;
\* from the i-th book of the iteration order on
Probe(books, order, i, event) ==
    IF i > Len(order) THEN books
    ELSE LET r == ProbeCall(books[order[i]], event)
             applied == [books EXCEPT ![order[i]] = r.book]
         IN  IF r.ok THEN applied ELSE Probe(applied, order, i + 1, event)

RECURSIVE ProbeProcessed(_, _, _, _)
\* the value the same loop leaves in processed: true when a book accepted
ProbeProcessed(books, order, i, event) ==
    IF i > Len(order) THEN FALSE
    ELSE LET r == ProbeCall(books[order[i]], event)
             applied == [books EXCEPT ![order[i]] = r.book]
         IN  IF r.ok THEN TRUE ELSE ProbeProcessed(applied, order, i + 1, event)

\* the switch of the consumer loop on event.type
Dispatch(books, order, event) ==
    LET msg == event.payload
    IN  CASE event.type = "ADD_ORDER" ->
               LET symbol == SymbolOf(SubSeq(msg, 18, Len(msg)))
                   side   == IF AddSide(msg) = BUY THEN BUY ELSE SELL
               IN  IF symbol \in DOMAIN books
                   THEN [books EXCEPT ![symbol] =
                           on_add(books[symbol], AddOrderId(msg), side,
                                  AddPx(msg), AddQty(msg)).book]
                   ELSE books
          [] event.type \in {"MODIFY_ORDER", "EXECUTE_ORDER", "DELETE_ORDER"} ->
               Probe(books, order, 1, event)
          [] OTHER -> books

PipeGood ==
    { RecA(1, SymAAPL, BUY, 1, U32(1)),
      RecA(1, SymMSFT, SELL, 2, U32(1)),
      RecE(1, U32(1)),
      RecD(1) }

\* a wire symbol field that no configured symbol equals: "AAPL X"
SymAAPL_X == <<65, 65, 80, 76, 32, 88>>

PipeChunks ==
    PipeGood \cup { RecA(2, SymAAPL, SELL, 2, U32Zero), <<0>>,
                    RecA(2, SymAAPL_X, BUY, 1, U32(1)) }

\* feeds of whole chunks, and the same with a truncated trailing record
PipeFeeds ==
    FeedsOf(PipeChunks, MaxPipeChunks)
        \cup {f \o <<TagD>> : f \in FeedsOf(PipeChunks, MaxPipeChunks)}

\* every byte of the feed belongs to a complete record that passes validation
WellFramed(f) == f \in FeedsOf(PipeGood, MaxPipeChunks)

PipeInit ==
    /\ book = EmptyBook /\ op = "none" /\ ret = TRUE
    /\ PubNone /\ MoveNone
    /\ feed \in PipeFeeds
    /\ current_pos_ = 0
    /\ returned = NoCall
    /\ passes = NoPasses
    /\ capacity_ = RING_BUFFER_SIZE
    /\ head_ = 0 /\ tail_ = 0
    /\ buffer_ = NewBuffer(capacity_, InvalidEvent)
    /\ ppc = "p_loop" /\ p_item = InvalidEvent /\ p_tail = 0
    /\ cpc = "c_loop" /\ c_item = InvalidEvent /\ c_head = 0
    /\ pushed = << >> /\ popped = << >>
    /\ g_shutdown = FALSE /\ shutdown_at = -1
    /\ order_books = [sym \in ConfiguredSymbols |-> EmptyBook]
    /\ iter_order \in IterationOrders(ConfiguredSymbols)
    /\ dispatched = << >> /\ discarded = << >>

\* what a producer step besides the ring's leaves alone
ProdFrame == <<capacity_, head_, tail_, buffer_, p_tail, cpc, c_item, c_head,
               pushed, popped, feed, returned, passes, pipeVars, bookVars, extVars>>

\* while (!g_shutdown && decoder.has_next())
ProdLoop ==
    /\ ppc = "p_loop"
    /\ ppc' = IF ~g_shutdown /\ has_next(feed, current_pos_) THEN "p_next" ELSE "p_done"
    /\ UNCHANGED <<ProdFrame, p_item, current_pos_>>

\* a slip of the producer: the INVALID test is missing, every event is pushed
ProdNextPushesInvalid ==
    /\ ppc = "p_next"
    /\ LET r == next(feed, current_pos_)
       IN  /\ current_pos_' = r.pos
           /\ p_item' = r.ev
           /\ ppc' = "p_push_tail"
    /\ UNCHANGED ProdFrame

\* event = decoder.next(); if (event.type == INVALID) continue;
ProdNext ==
    /\ ppc = "p_next"
    /\ LET r == next(feed, current_pos_)
       IN  /\ current_pos_' = r.pos
           /\ p_item' = r.ev
           /\ ppc' = IF r.ev.type = "INVALID" THEN "p_loop" ELSE "p_push_tail"
    /\ UNCHANGED ProdFrame

\* a slip of the producer's retry loop: the flag is not tested while spinning
ProdFullIgnoresShutdown ==
    /\ ppc = "p_full"
    /\ ppc' = "p_push_tail"
    /\ UNCHANGED <<ProdFrame, p_item, current_pos_>>

\* try_push returned false: while (... && !g_shutdown) yield()
ProdFull ==
    /\ ppc = "p_full"
    /\ ppc' = IF g_shutdown THEN "p_loop" ELSE "p_push_tail"
    /\ UNCHANGED <<ProdFrame, p_item, current_pos_>>

\* while (!ring_buffer.try_push(std::move(event)) && !g_shutdown)
ProdPushLoadTail == PushLoadTail("p_push_tail", "p_push_head")
ProdPushLoadHead == PushLoadHead("p_push_head", "p_full", "p_push_write")
ProdPushWrite    == PushWrite("p_push_write", "p_push_store")
ProdPushStore    == PushStore("p_push_store", "p_loop")

Producer ==
    \/ ProdLoop \/ ProdNext \/ ProdFull
    \/ ProdPushLoadTail \/ ProdPushLoadHead \/ ProdPushWrite \/ ProdPushStore

\* what a consumer step besides the ring's leaves alone
ConsFrame == <<capacity_, head_, tail_, buffer_, ppc, p_item, p_tail, c_item, c_head,
               pushed, popped, decVars, g_shutdown, shutdown_at, iter_order, bookVars,
               extVars>>

\* while (!g_shutdown)
ConsLoop ==
    /\ cpc = "c_loop"
    /\ cpc' = IF g_shutdown THEN "c_join" ELSE "c_pop_head"
    /\ UNCHANGED <<ConsFrame, order_books, dispatched, discarded>>

\* if (ring_buffer.try_pop(event))
ConsPopLoadHead == PopLoadHead("c_pop_head", "c_pop_tail")
ConsPopLoadTail == PopLoadTail("c_pop_tail", "c_empty", "c_pop_read")
ConsPopRead     == PopRead("c_pop_read", "c_pop_store")
ConsPopStore    == PopStore("c_pop_store", "c_dispatch")

\* the switch on event.type, then total_messages++ (the latency sample and
\* the periodic publish that follow touch only the statistics and the
\* publisher, which are not part of this state)
ConsDispatch ==
    /\ cpc = "c_dispatch"
    /\ order_books' = Dispatch(order_books, iter_order, c_item)
    /\ dispatched' = Append(dispatched, c_item)
    /\ cpc' = "c_loop"
    /\ UNCHANGED <<ConsFrame, discarded>>

\* yield(); if (!producer.joinable() || ring_buffer.empty()): the thread has
\* not been joined, so joinable() is true and empty() decides
ConsEmpty ==
    /\ cpc = "c_empty"
    /\ cpc' = IF empty THEN "c_check_eof" ELSE "c_loop"
    /\ UNCHANGED <<ConsFrame, order_books, dispatched, discarded>>

\* if (!decoder.has_next() || g_shutdown) break;  with the cursor as it is
ConsCheckEof ==
    /\ cpc = "c_check_eof"
    /\ cpc' = IF ~has_next(feed, current_pos_) \/ g_shutdown THEN "c_join" ELSE "c_loop"
    /\ UNCHANGED <<ConsFrame, order_books, dispatched, discarded>>

\* the same read of current_pos_, which the producer thread writes without
\* synchronisation, returning a value from before the producer's last write:
\* every earlier cursor is below the file size, so has_next() is true
ConsCheckEofStale ==
    /\ cpc = "c_check_eof"
    /\ current_pos_ > 0
    /\ cpc' = IF g_shutdown THEN "c_join" ELSE "c_loop"
    /\ UNCHANGED <<ConsFrame, order_books, dispatched, discarded>>

\* a slip of the exit path: the producer thread is not waited for
ConsJoinNoWait ==
    /\ cpc = "c_join"
    /\ cpc' = "c_drain_head"
    /\ UNCHANGED <<ConsFrame, order_books, dispatched, discarded>>

\* if (producer.joinable()) producer.join(): returns once the thread has ended
ConsJoin ==
    /\ cpc = "c_join"
    /\ ppc = "p_done"
    /\ cpc' = "c_drain_head"
    /\ UNCHANGED <<ConsFrame, order_books, dispatched, discarded>>

\* while (ring_buffer.try_pop(event))
DrainPopLoadHead == PopLoadHead("c_drain_head", "c_drain_tail")
DrainPopLoadTail == PopLoadTail("c_drain_tail", "c_exit", "c_drain_read")
DrainPopRead     == PopRead("c_drain_read", "c_drain_store")
DrainPopStore    == PopStore("c_drain_store", "c_drain_body")

\* the body of the drain loop: total_messages++ and nothing else
ConsDrainBody ==
    /\ cpc = "c_drain_body"
    /\ discarded' = Append(discarded, c_item)
    /\ cpc' = "c_drain_head"
    /\ UNCHANGED <<ConsFrame, order_books, dispatched>>

Consumer ==
    \/ ConsLoop
    \/ ConsPopLoadHead \/ ConsPopLoadTail \/ ConsPopRead \/ ConsPopStore
    \/ ConsDispatch \/ ConsEmpty \/ ConsCheckEof \/ ConsCheckEofStale
    \/ ConsJoin
    \/ DrainPopLoadHead \/ DrainPopLoadTail \/ DrainPopRead \/ DrainPopStore
    \/ ConsDrainBody

\* signal_handler: g_shutdown = true
Shutdown ==
    /\ ~g_shutdown
    /\ cpc # "c_exit"
    /\ g_shutdown' = TRUE
    /\ shutdown_at' = Len(pushed)
    /\ UNCHANGED <<ringVars, decVars, order_books, iter_order, dispatched, discarded,
                   bookVars, extVars>>

PipeNext == Producer \/ Consumer \/ Shutdown

SpecPipe == PipeInit /\ [][PipeNext]_vars

\* both threads keep being scheduled, and a read of the cursor by the
\* consumer cannot return stale values for ever
FairSpecPipe ==
    SpecPipe /\ WF_vars(Producer) /\ WF_vars(Consumer) /\ SF_vars(ConsCheckEof)

(***************************************************************************)
(* Properties of the pipeline.                                             *)
(***************************************************************************)
\* the consumer has left its while (!g_shutdown) loop
ConsumerLoopEnded ==
    cpc \in {"c_join", "c_drain_head", "c_drain_tail", "c_drain_read",
             "c_drain_store", "c_drain_body", "c_exit"}

\* C2: with no shutdown request, whatever the feed holds, the producer
\* thread and the consumer loop both eventually terminate.
C2_Terminates ==
    <>(g_shutdown \/ (ppc = "p_done" /\ ConsumerLoopEnded))

\* C3: when the pipeline exits after a run with no shutdown request on a
\* well-framed feed, every enqueued event has been dispatched to the order
\* books by the consumer loop, and none was popped and discarded.
C3_AllDispatched ==
    (cpc = "c_exit" /\ ~g_shutdown /\ WellFramed(feed)) =>
        (dispatched = pushed /\ discarded = << >>)

\* C8: every order id is live in at most one configured OrderBook.
C8_Uniqueness ==
    \A s1, s2 \in DOMAIN order_books :
        s1 # s2 =>
            (DOMAIN order_books[s1].orders_) \cap (DOMAIN order_books[s2].orders_) = {}

RECURSIVE InFileOrder(_, _, _)
\* the payloads of evs are records of the file f found one after the other,
\* without overlap, from offset from on
InFileOrder(evs, f, from) ==
    IF evs = << >> THEN TRUE
    ELSE LET n == Len(Head(evs).payload)
             S == {o \in from..(Len(f) - n) : SubSeq(f, o + 1, o + n) = Head(evs).payload}
         IN  /\ Head(evs).type # "INVALID"
             /\ S # {}
             /\ InFileOrder(Tail(evs), f, MinOf(S) + n)

C20_ShutdownDrains ==
    (cpc = "c_exit" /\ g_shutdown) =>
        /\ IsPrefix(dispatched, pushed)
        /\ Len(dispatched) >= shutdown_at

\* C21: once the shutdown flag is set neither thread starts another turn of
\* its loops (the producer decodes no further record and retries no push,
\* the consumer starts no further pop), and the producer thread and the
\* consumer loop both terminate, a full ring that is never popped included.
C21_ShutdownStops ==
    /\ [][g_shutdown =>
            /\ ~(ppc = "p_loop" /\ ppc' = "p_next")
            /\ ~(ppc = "p_full" /\ ppc' = "p_push_tail")
            /\ ~(cpc = "c_loop" /\ cpc' = "c_pop_head")
            /\ ~(cpc = "c_check_eof" /\ cpc' = "c_loop")]_vars
    /\ (g_shutdown ~> (ppc = "p_done" /\ ConsumerLoopEnded))

\* both have terminated after a shutdown request that found the producer
\* holding a decoded event it could not push: the ring is still full of the
\* first event and the second record's event was never enqueued
C21_Witness ==
    /\ g_shutdown /\ ppc = "p_done" /\ ConsumerLoopEnded
    /\ WellFramed(feed)
    /\ next(feed, 0).pos < Len(feed)
    /\ ~has_next(feed, current_pos_)
    /\ Len(pushed) = 1
    /\ Held = capacity_ - 1

ValidKinds == {"ADD_ORDER", "MODIFY_ORDER", "EXECUTE_ORDER", "DELETE_ORDER"}

\* the slots that hold a pushed and not yet popped item
HeldSlots == {BitAnd(head_ + k, mask_) : k \in 0..(Held - 1)}

\* C22: no Invalid event is ever pushed: every item enqueued, every item
\* held in the ring and every item the consumer pops has kind AddOrder,
\* ModifyOrder, ExecuteOrder or DeleteOrder.
C22_NoInvalidInRing ==
    /\ \A i \in 1..Len(pushed) : pushed[i].type \in ValidKinds
    /\ \A i \in HeldSlots : buffer_[i].type \in ValidKinds
    /\ \A i \in 1..Len(popped) : popped[i].type \in ValidKinds
    /\ cpc \in {"c_pop_store", "c_dispatch", "c_drain_store", "c_drain_body"}
          => c_item.type \in ValidKinds

\* the decoder has handed the producer an Invalid event after a valid one
\* went through the ring, and the producer is back at the head of its loop
C22_Witness ==
    /\ ppc = "p_loop"
    /\ p_item.type = "INVALID"
    /\ Len(popped) >= 1
    /\ Held = 0

\* the order id a Modify, Execute or Delete event names
EventOrderId(event) ==
    CASE event.type = "MODIFY_ORDER"  -> ModOrderId(event.payload)
      [] event.type = "EXECUTE_ORDER" -> ExecOrderId(event.payload)
      [] event.type = "DELETE_ORDER"  -> DelOrderId(event.payload)

\* the books in which the order id of the event is live
Owners(books, event) ==
    {s \in DOMAIN books : EventOrderId(event) \in DOMAIN books[s].orders_}

\* the event given to the book that owns its order id, and to no book when
\* none owns it: the outcome and the books afterwards
DirectRoute(books, event) ==
    IF Owners(books, event) = {} THEN [ok |-> FALSE, books |-> books]
    ELSE LET s == CHOOSE o \in Owners(books, event) : TRUE
             r == ProbeCall(books[s], event)
         IN  [ok |-> r.ok, books |-> [books EXCEPT ![s] = r.book]]

RoutedKinds == {"MODIFY_ORDER", "EXECUTE_ORDER", "DELETE_ORDER"}

\* Modify, Execute and Delete events over the ids, prices and quantities of
\* the feeds
RoutedEvents ==
    {[type |-> "MODIFY_ORDER", payload |-> RecU(id, px, U32(q))] :
        id \in Ids, px \in Prices, q \in 1..MaxQty}
    \cup {[type |-> "EXECUTE_ORDER", payload |-> RecE(id, U32(q))] :
        id \in Ids, q \in 1..MaxQty}
    \cup {[type |-> "DELETE_ORDER", payload |-> RecD(id)] : id \in Ids}

\* C29: when every order id is live in at most one book, probing the books
\* in iteration order up to the first that accepts gives the same outcome
\* and the same books as giving the event to the book that owns the order id
\* (to none when none owns it), for every Modify, Execute or Delete event and
\* every iteration order, and changes at most one book; the dispatch step of
\* the consumer leaves the books as the direct routing would.  (The books
\* change only in the dispatch step, which returns to the head of the loop,
\* so the books seen there are all the books there are.)
C29_ProbeIsDirectRoute ==
    /\ []((cpc = "c_loop" /\ C8_Uniqueness) =>
            \A event \in RoutedEvents :
              \A order \in IterationOrders(ConfiguredSymbols) :
                LET probed == Probe(order_books, order, 1, event)
                    direct == DirectRoute(order_books, event)
                IN  /\ probed = direct.books
                    /\ ProbeProcessed(order_books, order, 1, event) = direct.ok
                    /\ Cardinality({s \in DOMAIN order_books :
                            probed[s] # order_books[s]}) <= 1)
    /\ [][(/\ cpc = "c_dispatch" /\ cpc' # cpc
            /\ c_item.type \in RoutedKinds
            /\ C8_Uniqueness)
              => order_books' = DirectRoute(order_books, c_item).books]_vars

\* an order was added to the book that comes second in the iteration order,
\* and the Execute or Delete dispatched after it has emptied that book
C29_Witness ==
    /\ Len(dispatched) = 2
    /\ dispatched[1].type = "ADD_ORDER"
    /\ AddSymbol(dispatched[1].payload) = iter_order[2]
    /\ dispatched[2].type \in {"EXECUTE_ORDER", "DELETE_ORDER"}
    /\ \A s \in DOMAIN order_books : order_books[s] = EmptyBook

\* C30: while the producer thread is running, the consumer thread does not
\* access the decoder: each evaluation of decoder.has_next() by the consumer
\* (the step that leaves c_check_eof, which reads the cursor and the file
\* size) happens after the producer thread has ended.
C30_DecoderOwnedByProducer ==
    [][(cpc = "c_check_eof" /\ cpc' # cpc) => ppc = "p_done"]_vars

\* C31: an AddOrder event changes a book only when the 6-byte symbol field
\* of the record is byte for byte that book's configured symbol padded with
\* spaces; an Add whose field differs from every configured symbol changes
\* no book.
C31_AddBySymbolField ==
    [][(cpc = "c_dispatch" /\ cpc' # cpc /\ c_item.type = "ADD_ORDER") =>
          \A s \in DOMAIN order_books :
              order_books'[s] # order_books[s] => AddSymbol(c_item.payload) = s]_vars

(***************************************************************************)
(* TopOfBookPublisher (publisher.cpp): the stream is the sequence of the   *)
(* characters written to it, each a character code.                        *)
(***************************************************************************)
Comma   == 44   \* ','
Newline == 10   \* '\n'
Space   == 32   \* ' '
Dot     == 46   \* '.'
Digit0  == 48   \* '0'

\* "ts_us,symbol,bid_px,bid_sz,ask_px,ask_sz\n"
HeaderText ==
    <<116, 115, 95, 117, 115, 44, 115, 121, 109, 98, 111, 108, 44,
      98, 105, 100, 95, 112, 120, 44, 98, 105, 100, 95, 115, 122, 44,
      97, 115, 107, 95, 112, 120, 44, 97, 115, 107, 95, 115, 122, 10>>

RECURSIVE Decimal(_)
\* operator<< of an unsigned integer: its decimal digits
Decimal(n) ==
    IF n < 10 THEN <<Digit0 + n>>
    ELSE Decimal(n \div 10) \o <<Digit0 + (n % 10)>>

RECURSIVE FixedDigits(_, _)
\* the last w decimal digits of n, zero-padded
FixedDigits(n, w) ==
    IF w = 0 THEN << >>
    ELSE FixedDigits(n \div 10, w - 1) \o <<Digit0 + (n % 10)>>

\* operator<< of a uint32_t (the sizes published stay below 2^15)
U32Decimal(q) == Decimal(q.hi * Half + q.lo)

\* Symbol::to_string(): the 6 bytes without their trailing spaces
to_string(sym) ==
    LET ns == {i \in 1..6 : sym[i] # Space}
    IN  IF ns = {} THEN << >> ELSE SubSeq(sym, 1, MaxOf(ns))

\* format_price: price_nano / 1e9 printed fixed with 9 decimals (the prices
\* published are non-negative and far below 2^53, where the division and
\* the rounding to nine decimals give back the nano digits)
format_price(price_nano) ==
    Decimal(price_nano \div 10^9) \o <<Dot>> \o FixedDigits(price_nano % 10^9, 9)

has_bid(tob) == U32Gt(tob.bid_sz, U32Zero)
has_ask(tob) == U32Gt(tob.ask_sz, U32Zero)

\* print_header()
print_header(out) == out \o HeaderText

\* a slip of publish(): the header flag is not consulted
publish_header_each_time(out, printed, timestamp_us, symbol, tob) ==
    LET o1 == print_header(out)
        o2 == o1 \o Decimal(timestamp_us) \o <<Comma>> \o to_string(symbol) \o <<Comma>>
        o3 == IF has_bid(tob)
              THEN o2 \o format_price(tob.best_bid_px) \o <<Comma>> \o U32Decimal(tob.bid_sz)
              ELSE o2 \o <<Comma>>
        o4 == o3 \o <<Comma>>
        o5 == IF has_ask(tob)
              THEN o4 \o format_price(tob.best_ask_px) \o <<Comma>> \o U32Decimal(tob.ask_sz)
              ELSE o4 \o <<Comma>>
    IN  [output_ |-> o5 \o <<Newline>>, header_printed_ |-> TRUE]

\* publish(timestamp_us, symbol, tob) on a publisher whose stream holds out
\* and whose header_printed_ is printed: the stream and the flag afterwards
publish(out, printed, timestamp_us, symbol, tob) ==
    LET o1 == IF ~printed THEN print_header(out) ELSE out
        o2 == o1 \o Decimal(timestamp_us) \o <<Comma>> \o to_string(symbol) \o <<Comma>>
        o3 == IF has_bid(tob)
              THEN o2 \o format_price(tob.best_bid_px) \o <<Comma>> \o U32Decimal(tob.bid_sz)
              ELSE o2 \o <<Comma>>
        o4 == o3 \o <<Comma>>
        o5 == IF has_ask(tob)
              THEN o4 \o format_price(tob.best_ask_px) \o <<Comma>> \o U32Decimal(tob.ask_sz)
              ELSE o4 \o <<Comma>>
    IN  [output_ |-> o5 \o <<Newline>>, header_printed_ |-> TRUE]

(***************************************************************************)
(* SpecPublisher: publish() called any number of times with any arguments  *)
(* on one publisher, as in IntegrationTest.EndToEndProcessing.             *)
(***************************************************************************)
\* what top_of_book() can return: a side with no level reads 0, 0
TopOfBooks ==
    {[best_bid_px |-> IF b = 0 THEN 0 ELSE 1, bid_sz |-> U32(b),
      best_ask_px |-> IF a = 0 THEN 0 ELSE 2, ask_sz |-> U32(a)] :
        b \in 0..1, a \in 0..1}

\* Symbol("AAPL"), Symbol("MSFT") and Symbol()
PubSymbols == {SymAAPL, SymMSFT, [i \in 1..6 |-> Space]}

PublisherInit ==
    /\ book = EmptyBook /\ op = "none" /\ ret = TRUE
    /\ capacity_ = 0 /\ head_ = 0 /\ tail_ = 0 /\ buffer_ = << >>
    /\ ppc = "none" /\ p_item = 0 /\ p_tail = 0
    /\ cpc = "none" /\ c_item = 0 /\ c_head = 0
    /\ pushed = << >> /\ popped = << >>
    /\ feed = << >> /\ current_pos_ = 0 /\ returned = << >> /\ passes = << >>
    /\ g_shutdown = FALSE /\ shutdown_at = -1
    /\ order_books = EmptyMap /\ iter_order = << >>
    /\ dispatched = << >> /\ discarded = << >>
    /\ MoveNone
    /\ symbols = << >> /\ publish_interval_us = 0
    /\ now_us = 0 /\ last_publish_us = 0 /\ round = 0
    /\ output_ = << >>
    /\ header_printed_ = FALSE
    /\ published = << >>

PubOthers == <<bookVars, ringVars, decVars, pipeVars, moveVars>>

\* publisher.publish(timestamp_us, symbol, tob)
PubPublish ==
    /\ Len(published) < MaxPublish
    /\ \E ts \in 0..MaxTs, sym \in PubSymbols, tob \in TopOfBooks :
         LET r == publish(output_, header_printed_, ts, sym, tob)
         IN  /\ output_' = r.output_
             /\ header_printed_' = r.header_printed_
             /\ published' = Append(published,
                                    [timestamp_us |-> ts, symbol |-> sym, tob |-> tob])
    /\ UNCHANGED <<symbols, publish_interval_us, now_us, last_publish_us, round, PubOthers>>

PublisherNext == PubPublish

SpecPublisher == PublisherInit /\ [][PublisherNext]_vars

(***************************************************************************)
(* Properties of the publisher.                                            *)
(***************************************************************************)
RECURSIVE Split(_, _)
\* the pieces of s between the occurrences of sep: one more than there are
\* occurrences, the last being what follows the last sep
Split(s, sep) ==
    LET at == {i \in 1..Len(s) : s[i] = sep}
    IN  IF at = {} THEN <<s>>
        ELSE <<SubSeq(s, 1, MinOf(at) - 1)>>
               \o Split(SubSeq(s, MinOf(at) + 1, Len(s)), sep)

\* the header row without its newline
HeaderRow == SubSeq(HeaderText, 1, Len(HeaderText) - 1)

\* C32: over any sequence of publish() calls the stream is made of
\* newline-terminated rows; nothing is written before the first call; the
\* header row is the first row and occurs once; the k-th call wrote the row
\* after it, which has six comma-separated fields, the bid pair empty when
\* the bid side has no level and the ask pair empty when the ask side has
\* none.
C32_HeaderOnceThenRows ==
    LET pieces == Split(output_, Newline)
        rows   == SubSeq(pieces, 1, Len(pieces) - 1)
    IN  /\ pieces[Len(pieces)] = << >>
        /\ (published = << >>) => (output_ = << >>)
        /\ (published # << >>) =>
             /\ Len(rows) = Len(published) + 1
             /\ rows[1] = HeaderRow
             /\ \A k \in 1..Len(published) :
                  LET fields == Split(rows[k + 1], Comma)
                      tob    == published[k].tob
                  IN  /\ rows[k + 1] # HeaderRow
                      /\ Len(fields) = 6
                      /\ fields[1] # << >>
                      /\ ~has_bid(tob) => (fields[3] = << >> /\ fields[4] = << >>)
                      /\ ~has_ask(tob) => (fields[5] = << >> /\ fields[6] = << >>)
                      /\ has_bid(tob) => (fields[3] # << >> /\ fields[4] # << >>)
                      /\ has_ask(tob) => (fields[5] # << >> /\ fields[6] # << >>)

\* two calls were made on one publisher, the first with a bid and no ask,
\* the second with an ask and no bid
C32_Witness ==
    /\ Len(published) = 2
    /\ has_bid(published[1].tob) /\ ~has_ask(published[1].tob)
    /\ ~has_bid(published[2].tob) /\ has_ask(published[2].tob)
    /\ header_printed_

(***************************************************************************)
(* SpecRounds: the periodic publish of main's consumer loop.  The books    *)
(* are built from the symbol strings of the command line, the steady clock *)
(* advances between the steps, and after each event the loop reads the     *)
(* clock and publishes every book when the interval has elapsed.           *)
(***************************************************************************)
\* the C strings "AAPL", "MSFT", "ABCDEF" and "ABCDEG", with their terminator
StrAAPL   == <<65, 65, 80, 76, 0>>
StrMSFT   == <<77, 83, 70, 84, 0>>
StrABCDEF == <<65, 66, 67, 68, 69, 70, 0>>
StrABCDEG == <<65, 66, 67, 68, 69, 71, 0>>

\* what --symbols can give
SymbolLists == { <<StrAAPL>>, <<StrAAPL, StrMSFT>>, <<StrABCDEF, StrABCDEG>> }

\* for (symbol_str : config.symbols) order_books[Symbol(symbol_str.c_str())] = OrderBook()
BuildBooks(strs) ==
    [k \in {SymbolOf(strs[i]) : i \in DOMAIN strs} |-> EmptyBook]

RoundsInit ==
    /\ book = EmptyBook /\ op = "none" /\ ret = TRUE
    /\ capacity_ = 0 /\ head_ = 0 /\ tail_ = 0 /\ buffer_ = << >>
    /\ ppc = "none" /\ p_item = 0 /\ p_tail = 0
    /\ c_item = 0 /\ c_head = 0
    /\ pushed = << >> /\ popped = << >>
    /\ feed = << >> /\ current_pos_ = 0 /\ returned = << >> /\ passes = << >>
    /\ g_shutdown = FALSE /\ shutdown_at = -1
    /\ dispatched = << >> /\ discarded = << >>
    /\ MoveNone
    /\ symbols \in SymbolLists
    /\ publish_interval_us \in 0..MaxInterval
    /\ order_books = BuildBooks(symbols)
    /\ iter_order \in IterationOrders(DOMAIN order_books)
    /\ output_ = << >> /\ header_printed_ = FALSE /\ published = << >>
    /\ now_us = 0
    /\ last_publish_us = now_us
    /\ round = 0
    /\ cpc = "r_loop"

RoundsOthers == <<bookVars, capacity_, head_, tail_, buffer_, ppc, p_item, p_tail,
                  c_item, c_head, pushed, popped, decVars, g_shutdown, shutdown_at,
                  dispatched, discarded, moveVars, symbols, publish_interval_us,
                  iter_order>>

\* time passes on the steady clock
ClockTick ==
    /\ now_us < MaxClock
    /\ now_us' = now_us + 1
    /\ UNCHANGED <<RoundsOthers, cpc, order_books, output_, header_printed_, published,
                   last_publish_us, round>>

\* an event is popped and run through the switch: it adds an order to one
\* of the books or changes none
RoundsEvent ==
    /\ cpc = "r_loop"
    /\ round < MaxRounds
    /\ \/ order_books' = order_books
       \/ \E s \in DOMAIN order_books, side \in Sides :
            order_books' = [order_books EXCEPT
                              ![s] = on_add(@, 1, side, 1, U32(1)).book]
    /\ cpc' = "r_check"
    /\ UNCHANGED <<RoundsOthers, now_us, output_, header_printed_, published,
                   last_publish_us, round>>

RECURSIVE PublishAll(_, _, _, _, _, _)
\* for (const auto& [sym, book] : order_books) publisher.publish(t, sym, book.top_of_book())
\* from the i-th book of the iteration order on; calls are the calls made
PublishAll(pub, calls, books, order, i, t) ==
    IF i > Len(order) THEN [pub |-> pub, calls |-> calls]
    ELSE LET tob == top_of_book(books[order[i]])
         IN  PublishAll(publish(pub.output_, pub.header_printed_, t, order[i], tob),
                        Append(calls, [timestamp_us |-> t, symbol |-> order[i], tob |-> tob]),
                        books, order, i + 1, t)

\* current_time_us = Clock::now_us(); if (current_time_us - last_publish_us >=
\* config.publish_interval_us) { publish every book; last_publish_us = current_time_us; }
\* (the clock is steady and last_publish_us is an earlier reading of it, so
\* the unsigned difference does not wrap)
RoundsCheck ==
    /\ cpc = "r_check"
    /\ LET current_time_us == now_us
       IN  IF current_time_us - last_publish_us >= publish_interval_us
           THEN LET r == PublishAll([output_ |-> output_,
                                     header_printed_ |-> header_printed_],
                                    published, order_books, iter_order, 1,
                                    current_time_us)
                IN  /\ output_' = r.pub.output_
                    /\ header_printed_' = r.pub.header_printed_
                    /\ published' = r.calls
                    /\ last_publish_us' = current_time_us
                    /\ round' = round + 1
           ELSE UNCHANGED <<output_, header_printed_, published, last_publish_us, round>>
    /\ cpc' = "r_loop"
    /\ UNCHANGED <<RoundsOthers, now_us, order_books>>

RoundsNext == ClockTick \/ RoundsEvent \/ RoundsCheck

SpecRounds == RoundsInit /\ [][RoundsNext]_vars

(***************************************************************************)
(* Properties of the periodic publish.                                     *)
(***************************************************************************)
\* a symbol string of the command line as a 6-byte field: its characters
\* up to the terminator, at most 6, right-padded with spaces
FieldOf(str) ==
    LET n == Cardinality({i \in 1..Len(str) : \A j \in 1..i : str[j] # 0})
    IN  [i \in 1..6 |-> IF i <= n THEN str[i] ELSE Space]

\* the distinct symbols configured
ConfiguredFields == {FieldOf(symbols[i]) : i \in DOMAIN symbols}

\* the publish() calls a step has added
NewCalls == SubSeq(published', Len(published) + 1, Len(published'))

\* a round starts only when the clock reading is at least the interval past
\* last_publish_us
RoundOnlyWhenDue ==
    [][round' # round => now_us - last_publish_us >= publish_interval_us]_vars

\* a round stamps its rows with the clock reading and leaves it in
\* last_publish_us; a round after the first comes at least the interval
\* after the one before it
RoundSetsLast ==
    [][round' # round =>
          /\ last_publish_us' = now_us
          /\ \A k \in 1..Len(NewCalls) : NewCalls[k].timestamp_us = now_us
          /\ (round >= 1 /\ published # << >>) =>
                now_us - published[Len(published)].timestamp_us
                    >= publish_interval_us]_vars

\* a round makes one publish() call for each configured symbol
RoundOneRowPerSymbol ==
    [][round' # round =>
          /\ Len(NewCalls) = Cardinality(ConfiguredFields)
          /\ \A f \in ConfiguredFields :
                Cardinality({k \in 1..Len(NewCalls) : NewCalls[k].symbol = f}) = 1]_vars

\* C33: the consumer starts a publish round only when the clock reading
\* minus last_publish_us is at least publish_interval_us; a round emits
\* exactly one row for each configured symbol and then sets last_publish_us
\* to that reading, so the timestamps of consecutive rounds differ by at
\* least publish_interval_us.
C33_PublishRounds ==
    RoundOnlyWhenDue /\ RoundOneRowPerSymbol /\ RoundSetsLast

\* C34: under every interleaving of the loads and stores of the two
\* threads, the slot the producer writes holds no pushed and not yet popped
\* item and is not the slot the consumer is reading, and the slot the
\* consumer reads holds the oldest pushed and not yet popped item, whose
\* write was followed by the store to tail, and is not a slot the producer
\* has started to write.
C34_SlotOwnership ==
    [][/\ (ppc = "push_write" /\ ppc' # ppc) =>
            /\ p_tail \notin HeldSlots
            /\ ~(cpc \in {"pop_read", "pop_store"} /\ c_head = p_tail)
       /\ (cpc = "pop_read" /\ cpc' # cpc) =>
            /\ c_head \in HeldSlots
            /\ c_head = head_
            /\ buffer_[c_head] = pushed[Len(popped) + 1]
            /\ ~(ppc \in {"push_write", "push_store"} /\ p_tail = c_head)]_vars

\* the producer has written a slot and not yet stored tail while the
\* consumer has read another slot and not yet stored head, after an earlier
\* pop
C34_Witness ==
    /\ ppc = "push_store" /\ cpc = "pop_store"
    /\ p_tail # c_head
    /\ Len(popped) >= 1

\* C35: when the pipeline exits, after end of file or after a shutdown
\* request, the producer thread has ended and been joined and the ring is
\* empty: every enqueued event has been popped.
C35_EmptyAtExit ==
    (cpc = "c_exit") =>
        /\ ppc = "p_done"
        /\ empty
        /\ Len(popped) = Len(pushed)

\* the pipeline has exited after a shutdown request that found events in the
\* ring, and the loop after the join popped them
C35_Witness ==
    /\ cpc = "c_exit"
    /\ g_shutdown
    /\ discarded # << >>
    /\ Len(pushed) >= 2

(***************************************************************************)
(* Decoder objects (decoder.cpp): construction from a file, move           *)
(* construction, move assignment and destruction.  A mapping and its file  *)
(* descriptor are named by the number of the constructor call that made    *)
(* them.                                                                   *)
(***************************************************************************)
nullptr == 0
NoFd    == -1

\* the objects of DecoderTest.MoveSemantics
Objects == {"decoder1", "decoder2"}

\* storage outside the lifetime of an object
NoObject ==
    [alive |-> FALSE, mapped_data_ |-> nullptr, file_size_ |-> 0,
     current_pos_ |-> 0, fd_ |-> NoFd]

\* Decoder(filename) on a non-empty file that opens and maps: mapping and
\* descriptor n, file_size bytes (the constructor throws otherwise, and no object
\* comes to exist)
construct(n, file_size) ==
    [alive |-> TRUE, mapped_data_ |-> n, file_size_ |-> file_size,
     current_pos_ |-> 0, fd_ |-> n]

\* what ~Decoder() releases: the mappings it unmaps, the descriptors it closes
destructor(d) ==
    [munmap |-> IF d.mapped_data_ # nullptr THEN {d.mapped_data_} ELSE {},
     close  |-> IF d.fd_ # NoFd THEN {d.fd_} ELSE {}]

\* other.mapped_data_ = nullptr; other.file_size_ = 0; other.current_pos_ = 0;
\* other.fd_ = -1
reset_other(other) ==
    [other EXCEPT !.mapped_data_ = nullptr, !.file_size_ = 0,
                  !.current_pos_ = 0, !.fd_ = NoFd]

\* a slip of the move constructor: the source keeps its members
move_constructor_keeps_source(other) ==
    [self  |-> [other EXCEPT !.alive = TRUE],
     other |-> other]

\* Decoder(Decoder&& other): the new object and the source afterwards
move_constructor(other) ==
    [self  |-> [other EXCEPT !.alive = TRUE],
     other |-> reset_other(other)]

\* operator=(Decoder&& other) with this != &other: the object, the source
\* and what was released
move_assignment(self, other) ==
    [self  |-> [self EXCEPT !.mapped_data_ = other.mapped_data_,
                            !.file_size_ = other.file_size_,
                            !.current_pos_ = other.current_pos_,
                            !.fd_ = other.fd_],
     other |-> reset_other(other),
     released |-> destructor(self)]

\* the counts after the releases r
Release(rel, r) ==
    [m \in DOMAIN rel |->
        [munmap |-> rel[m].munmap + (IF m \in r.munmap THEN 1 ELSE 0),
         close  |-> rel[m].close + (IF m \in r.close THEN 1 ELSE 0)]]

MoveInit ==
    /\ book = EmptyBook /\ op = "none" /\ ret = TRUE
    /\ capacity_ = 0 /\ head_ = 0 /\ tail_ = 0 /\ buffer_ = << >>
    /\ ppc = "none" /\ p_item = 0 /\ p_tail = 0
    /\ cpc = "none" /\ c_item = 0 /\ c_head = 0
    /\ pushed = << >> /\ popped = << >>
    /\ feed = << >> /\ current_pos_ = 0 /\ returned = << >> /\ passes = << >>
    /\ g_shutdown = FALSE /\ shutdown_at = -1
    /\ order_books = EmptyMap /\ iter_order = << >>
    /\ dispatched = << >> /\ discarded = << >>
    /\ PubNone
    /\ decoders = [o \in Objects |-> NoObject]
    /\ released = << >>
    /\ moved = [op |-> "none", dst |-> "", src |-> ""]

MoveOthers == <<bookVars, ringVars, decVars, pipeVars, pubVars>>

\* feed::Decoder o(filename)
MvConstruct ==
    /\ Len(released) < MaxMaps
    /\ \E o \in Objects, file_size \in 1..MaxFileSize :
         /\ ~decoders[o].alive
         /\ decoders' = [decoders EXCEPT ![o] = construct(Len(released) + 1, file_size)]
         /\ released' = Append(released, [munmap |-> 0, close |-> 0])
         /\ moved' = [op |-> "ctor", dst |-> o, src |-> ""]
    /\ UNCHANGED MoveOthers

\* o.next() over an unknown tag byte: the cursor moves by one
MvNext ==
    /\ \E o \in Objects :
         /\ decoders[o].alive
         /\ decoders[o].current_pos_ < decoders[o].file_size_
         /\ decoders' = [decoders EXCEPT ![o].current_pos_ = @ + 1]
         /\ moved' = [op |-> "next", dst |-> o, src |-> ""]
    /\ UNCHANGED <<released, MoveOthers>>

\* feed::Decoder dst = std::move(src)
MvMoveConstruct ==
    /\ \E dst, src \in Objects :
         /\ ~decoders[dst].alive /\ decoders[src].alive
         /\ LET r == move_constructor(decoders[src])
            IN  decoders' = [decoders EXCEPT ![dst] = r.self, ![src] = r.other]
         /\ moved' = [op |-> "move_ctor", dst |-> dst, src |-> src]
    /\ UNCHANGED <<released, MoveOthers>>

\* dst = std::move(src); nothing is done when this == &other
MvMoveAssign ==
    /\ \E dst, src \in Objects :
         /\ decoders[dst].alive /\ decoders[src].alive
         /\ IF dst # src
            THEN LET r == move_assignment(decoders[dst], decoders[src])
                 IN  /\ decoders' = [decoders EXCEPT ![dst] = r.self, ![src] = r.other]
                     /\ released' = Release(released, r.released)
            ELSE UNCHANGED <<decoders, released>>
         /\ moved' = [op |-> "move_assign", dst |-> dst, src |-> src]
    /\ UNCHANGED MoveOthers

\* the lifetime of o ends: ~Decoder()
MvDestroy ==
    /\ \E o \in Objects :
         /\ decoders[o].alive
         /\ released' = Release(released, destructor(decoders[o]))
         /\ decoders' = [decoders EXCEPT ![o] = NoObject]
         /\ moved' = [op |-> "dtor", dst |-> o, src |-> ""]
    /\ UNCHANGED MoveOthers

MoveNext == MvConstruct \/ MvNext \/ MvMoveConstruct \/ MvMoveAssign \/ MvDestroy

SpecMove == MoveInit /\ [][MoveNext]_vars

(***************************************************************************)
(* Properties of the Decoder objects.                                      *)
(***************************************************************************)
\* the live objects that hold mapping m, and those that hold descriptor m
HoldersOfMapping(m) == {o \in Objects : decoders[o].alive /\ decoders[o].mapped_data_ = m}
HoldersOfFd(m)      == {o \in Objects : decoders[o].alive /\ decoders[o].fd_ = m}

\* a mapping and its descriptor are held by one live object and not
\* released, or held by none and released once
ReleasedOnce ==
    \A m \in DOMAIN released :
        /\ \/ Cardinality(HoldersOfMapping(m)) = 1 /\ released[m].munmap = 0
           \/ Cardinality(HoldersOfMapping(m)) = 0 /\ released[m].munmap = 1
        /\ \/ Cardinality(HoldersOfFd(m)) = 1 /\ released[m].close = 0
           \/ Cardinality(HoldersOfFd(m)) = 0 /\ released[m].close = 1

\* a move between two objects gives the destination the source's file size,
\* cursor, mapping and descriptor and leaves the source with size() == 0,
\* position() == 0 and has_next() false
MoveTransfers ==
    [][(moved'.op \in {"move_ctor", "move_assign"} /\ moved'.dst # moved'.src) =>
          LET dst == decoders'[moved'.dst]
              old == decoders[moved'.src]
              src == decoders'[moved'.src]
          IN  /\ dst.alive /\ src.alive
              /\ dst.file_size_ = old.file_size_
              /\ dst.current_pos_ = old.current_pos_
              /\ dst.mapped_data_ = old.mapped_data_
              /\ dst.fd_ = old.fd_
              /\ src.file_size_ = 0
              /\ src.current_pos_ = 0
              /\ ~(src.current_pos_ < src.file_size_)]_vars

\* C36: after a move construction or a move assignment from another object
\* the destination has the source's file size and cursor and the source
\* reports size() == 0, position() == 0 and has_next() == false; over the
\* lifetimes of the objects each mapping is released exactly once: never
\* twice, and it is released once no live object holds it.
C36_MoveAndRelease ==
    MoveTransfers /\ []ReleasedOnce

\* an object that held one mapping was move-assigned another one, part of
\* the way through its file, and the moved-from source has been destroyed
C36_Witness ==
    /\ \E o \in Objects :
         /\ decoders[o].alive
         /\ decoders[o].mapped_data_ = 2
         /\ decoders[o].current_pos_ > 0
    /\ Len(released) = 2
    /\ released[1].munmap = 1 /\ released[1].close = 1
    /\ moved.op = "dtor"

\* the indices are slots of the ring and their distance is the number of
\* items held
IndicesInRange ==
    /\ head_ \in 0..(capacity_ - 1)
    /\ tail_ \in 0..(capacity_ - 1)
    /\ Held = (tail_ - head_) % capacity_
    /\ Held <= capacity_ - 1

\* tail_ moves only in the store that ends a successful try_push, head_ only
\* in the store that ends a successful try_pop, and these stores move them
\* by one slot
IndexSteps ==
    [][/\ (tail_' # tail_ \/ pushed' # pushed) =>
            /\ ppc = "push_store" /\ ppc' = "p_idle"
            /\ tail_' = (tail_ + 1) % capacity_
            /\ pushed' = Append(pushed, p_item)
            /\ head_' = head_
       /\ (head_' # head_ \/ popped' # popped) =>
            /\ cpc = "pop_store" /\ cpc' = "c_idle"
            /\ head_' = (head_ + 1) % capacity_
            /\ popped' = Append(popped, c_item)
            /\ tail_' = tail_]_vars

\* C40: head_ and tail_ always lie in 0..capacity_-1 and the number of items
\* held is (tail_ - head_) mod capacity_, at most capacity_ - 1; tail_ is
\* changed only by a successful try_push and head_ only by a successful
\* try_pop, each by exactly one slot modulo the capacity.
C40_IndexDiscipline ==
    []IndicesInRange /\ IndexSteps

\* the tail has wrapped round a ring of four slots, which is full, and a
\* try_pop is about to store the head
C40_Witness ==
    /\ capacity_ = 4
    /\ Len(popped) >= 1 /\ Len(pushed) = MaxPush
    /\ tail_ < head_
    /\ Held = capacity_ - 1
    /\ cpc = "pop_store"

====
